---- MODULE Spec2Model ----
(***************************************************************************)
(* A model of the subtitle-assembly engine of whisper-studio               *)
(* (src/webui/srt_utils.py), of the job code that drives it                *)
(* (src/webui/app.py) and of the job queue and its worker                  *)
(* (src/webui/queue_manager.py, src/webui/worker.py).                      *)
(*                                                                         *)
(* Texts are sequences of one-character strings.  A time is a whole number *)
(* of milliseconds k and stands for the double nearest to k/1000, the      *)
(* value the Python code holds.                                            *)
(***************************************************************************)
EXTENDS Integers, Sequences, FiniteSets, TLC

VARIABLES
    c_pc, c_t, c_str, c_parsed,         \* timecode codec: position, input, formatted text, parsed time
    d_pc, d_cues, d_doc, d_parsed,      \* document codec: position, cues, serialized text, parsed cues
    d_blocks,                           \*   the blocks of a document that was not written by the serializer
    m_pc, m_segments, m_valid, m_i,     \* remove_overlapping_segments: position, argument, valid_segments, loop index
    m_cleaned, m_last, m_out,           \*   cleaned, the last loop step taken (kind, previous, current), return value
    s_pc, s_segments, s_speakers,       \* apply_speaker_segmentation: position, cues, speaker intervals
    s_out, s_counts,                    \*   return value, number of output cues made from each input cue
    g_pc, g_words, g_out,               \* group_words_into_subtitles: position, word tokens, return value
    p_pc, p_chunks, p_merged, p_final,  \* merge_srt_segments then clean_hallucinations: position, srt_chunks, the two documents
    j_pc, j_chunks, j_i, j_srt_chunks,  \* process_transcription_job (SRT mode): position, responses per chunk, loop index, srt_chunks
    j_diarization, j_merged, j_final,   \*   diarization request and result, merged_srt, final_srt
    j_stages,                           \*   the stages that have run on the job's cues, in order
    f_pc, f_content, f_segments, f_i,   \* clean_hallucinations: position, srt_content, parsed cues, loop index
    f_output, f_last, f_result,         \*   output, the last loop step taken (kind, last, segment), return value
    q_status, q_queued_at, q_clock,     \* job queue: the committed status and queued_at of each job row, the clock
    w_pc, w_job, shutdown_requested,    \*   the worker: position, job in hand, the shutdown flag
    web_pc, web_job,                    \*   a web request cancelling a job: position, the job it names
    q_cancel_true, q_handed             \*   ghosts: jobs cancel_job returned True for, jobs handed to process_job

codecVars == <<c_pc, c_t, c_str, c_parsed>>
docVars == <<d_pc, d_cues, d_doc, d_parsed, d_blocks>>
mergerVars == <<m_pc, m_segments, m_valid, m_i, m_cleaned, m_last, m_out>>
speakerVars == <<s_pc, s_segments, s_speakers, s_out, s_counts>>
grouperVars == <<g_pc, g_words, g_out>>
pipelineVars == <<p_pc, p_chunks, p_merged, p_final>>
jobVars == <<j_pc, j_chunks, j_i, j_srt_chunks, j_diarization, j_merged, j_final, j_stages>>
filterVars == <<f_pc, f_content, f_segments, f_i, f_output, f_last, f_result>>
queueVars == <<q_status, q_queued_at, q_clock, w_pc, w_job, shutdown_requested, web_pc, web_job, q_cancel_true, q_handed>>
vars == <<codecVars, docVars, mergerVars, speakerVars, grouperVars, pipelineVars, jobVars, filterVars, queueVars>>
notCodec == <<docVars, mergerVars, speakerVars, grouperVars, pipelineVars, jobVars, filterVars, queueVars>>
notDoc == <<codecVars, mergerVars, speakerVars, grouperVars, pipelineVars, jobVars, filterVars, queueVars>>
notMerger == <<codecVars, docVars, speakerVars, grouperVars, pipelineVars, jobVars, filterVars, queueVars>>
notSpeaker == <<codecVars, docVars, mergerVars, grouperVars, pipelineVars, jobVars, filterVars, queueVars>>
notGrouper == <<codecVars, docVars, mergerVars, speakerVars, pipelineVars, jobVars, filterVars, queueVars>>
notPipeline == <<codecVars, docVars, mergerVars, speakerVars, grouperVars, jobVars, filterVars, queueVars>>
notJob == <<codecVars, docVars, mergerVars, speakerVars, grouperVars, pipelineVars, filterVars, queueVars>>
notFilter == <<codecVars, docVars, mergerVars, speakerVars, grouperVars, pipelineVars, jobVars, queueVars>>
notQueue == <<codecVars, docVars, mergerVars, speakerVars, grouperVars, pipelineVars, jobVars, filterVars>>

CodecIdle == c_pc = "idle" /\ c_t = 0 /\ c_str = <<>> /\ c_parsed = 0
DocIdle == d_pc = "idle" /\ d_cues = <<>> /\ d_doc = <<>> /\ d_parsed = <<>> /\ d_blocks = <<>>
SpeakerIdle ==
    s_pc = "idle" /\ s_segments = <<>> /\ s_speakers = <<>> /\ s_out = <<>> /\ s_counts = <<>>
GrouperIdle == g_pc = "idle" /\ g_words = <<>> /\ g_out = <<>>
PipelineIdle == p_pc = "idle" /\ p_chunks = <<>> /\ p_merged = <<>> /\ p_final = <<>>
NoDiarization == [use_diarization |-> FALSE, speaker_segments |-> <<>>]
JobIdle ==
    /\ j_pc = "idle" /\ j_chunks = <<>> /\ j_i = 0 /\ j_srt_chunks = <<>>
    /\ j_diarization = NoDiarization /\ j_merged = <<>> /\ j_final = <<>>
    /\ j_stages = <<>>
NoStep == [kind |-> "none"]
MergerIdle ==
    /\ m_pc = "idle" /\ m_segments = <<>> /\ m_valid = <<>> /\ m_i = 0
    /\ m_cleaned = <<>> /\ m_last = NoStep /\ m_out = <<>>

FilterIdle ==
    f_pc = "idle" /\ f_content = <<>> /\ f_segments = <<>> /\ f_i = 0 /\ f_output = <<>> /\ f_last = NoStep /\ f_result = <<>>

\* get_next_job returns None when no row is queued; job rows are numbered from 1
NoJob == 0

QueueIdle ==
    q_status = <<>> /\ q_queued_at = <<>> /\ q_clock = 0 /\ w_pc = "idle" /\ w_job = NoJob /\ shutdown_requested = FALSE /\ web_pc = "idle" /\ web_job = NoJob /\ q_cancel_true = {} /\ q_handed = {}

(***************************************************************************)
(* Characters and the str methods the code uses                            *)
(***************************************************************************)
EnDash == "<U+2013>"
EAcute == "<U+00E9>"
EGrave == "<U+00E8>"
MusicNote == "<U+266A>"
Backtick == "<U+0060>"

Digits == <<"0", "1", "2", "3", "4", "5", "6", "7", "8", "9">>
UpperLetters == <<"A", "B", "C", "D", "E", "F", "G", "H", "I", "J", "K", "L", "M",
                  "N", "O", "P", "Q", "R", "S", "T", "U", "V", "W", "X", "Y", "Z">>
LowerLetters == <<"a", "b", "c", "d", "e", "f", "g", "h", "i", "j", "k", "l", "m",
                  "n", "o", "p", "q", "r", "s", "t", "u", "v", "w", "x", "y", "z">>

IsDigit(c) == \E i \in 1..10 : Digits[i] = c
DigitVal(c) == (CHOOSE i \in 1..10 : Digits[i] = c) - 1
DigitChar(d) == Digits[d + 1]

\* str.isspace() on the characters that occur
IsSpace(c) == c \in {" ", "\n", "\t", "\r"}

\* one character of str.lower()
LowerChar(c) ==
    IF \E i \in 1..26 : UpperLetters[i] = c
    THEN LowerLetters[CHOOSE i \in 1..26 : UpperLetters[i] = c]
    ELSE c

Lower(s) == [i \in 1..Len(s) |-> LowerChar(s[i])]

RECURSIVE LStrip(_)
LStrip(s) == IF s # <<>> /\ IsSpace(Head(s)) THEN LStrip(Tail(s)) ELSE s

RECURSIVE RStrip(_)
RStrip(s) ==
    IF s # <<>> /\ IsSpace(s[Len(s)]) THEN RStrip(SubSeq(s, 1, Len(s) - 1)) ELSE s

Strip(s) == RStrip(LStrip(s))

\* the offset of the first whitespace character of s, or Len(s) + 1
FirstSpace(s) ==
    IF \E i \in 1..Len(s) : IsSpace(s[i])
    THEN CHOOSE i \in 1..Len(s) : IsSpace(s[i]) /\ \A j \in 1..(i - 1) : ~IsSpace(s[j])
    ELSE Len(s) + 1

\* str.split(): the maximal runs of non-whitespace characters
RECURSIVE SplitWsFrom(_, _)
SplitWsFrom(s, acc) ==
    LET t == LStrip(s)
        n == FirstSpace(t)
    IN  IF t = <<>> THEN acc
        ELSE SplitWsFrom(SubSeq(t, n, Len(t)), Append(acc, SubSeq(t, 1, n - 1)))

SplitWs(s) == SplitWsFrom(s, <<>>)

\* sep.join(parts)
RECURSIVE Join(_, _)
Join(parts, sep) ==
    IF parts = <<>> THEN <<>>
    ELSE IF Len(parts) = 1 THEN parts[1]
    ELSE parts[1] \o sep \o Join(Tail(parts), sep)

\* s.startswith(p) at offset i (1-based)
MatchAt(s, i, p) == i + Len(p) - 1 <= Len(s) /\ SubSeq(s, i, i + Len(p) - 1) = p

\* the first offset >= i where p occurs in s, or 0
RECURSIVE FindFrom(_, _, _)
FindFrom(s, i, p) ==
    IF i + Len(p) - 1 > Len(s) THEN 0
    ELSE IF MatchAt(s, i, p) THEN i
    ELSE FindFrom(s, i + 1, p)

\* s.split(sep) for a non-empty separator
RECURSIVE SplitOn(_, _)
SplitOn(s, sep) ==
    LET at == FindFrom(s, 1, sep) IN
    IF at = 0 THEN <<s>>
    ELSE <<SubSeq(s, 1, at - 1)>> \o SplitOn(SubSeq(s, at + Len(sep), Len(s)), sep)

\* s.replace(a, b) for one-character a
ReplaceChar(s, a, b) == [i \in 1..Len(s) |-> IF s[i] = a THEN b ELSE s[i]]

\* f"{n}": the decimal digits of a natural number
RECURSIVE DecimalDigits(_)
DecimalDigits(n) ==
    IF n < 10 THEN <<DigitChar(n)>>
    ELSE Append(DecimalDigits(n \div 10), DigitChar(n % 10))

\* f"{n:0Wd}": zero-padded to at least width characters
RECURSIVE ZeroPad(_, _)
ZeroPad(ds, width) == IF Len(ds) >= width THEN ds ELSE ZeroPad(<<"0">> \o ds, width)

\* the value of a non-empty sequence of decimal digits
RECURSIVE DigitsValue(_)
DigitsValue(ds) ==
    IF Len(ds) = 1 THEN DigitVal(ds[1])
    ELSE 10 * DigitsValue(SubSeq(ds, 1, Len(ds) - 1)) + DigitVal(ds[Len(ds)])

(***************************************************************************)
(* Timecode codec: parse_timestamp, format_srt_timestamp                   *)
(***************************************************************************)
RECURSIVE Log2Floor(_)
Log2Floor(n) == IF n < 2 THEN 0 ELSE 1 + Log2Floor(n \div 2)

RECURSIVE Pow2(_)
Pow2(e) == IF e = 0 THEN 1 ELSE 2 * Pow2(e - 1)

\* (r * 2^f) mod 1000: the remainder of the binary long division of r by 1000
\* after f fraction bits
RECURSIVE FracRemainder(_, _)
FracRemainder(r, f) == IF f = 0 THEN r ELSE (2 * FracRemainder(r, f - 1)) % 1000

\* the number of fraction bits of the double nearest to whole + r/1000
\* (53 significant bits)
RECURSIVE LeadingExp(_, _)
LeadingExp(r, j) == IF r * Pow2(j) >= 1000 THEN j ELSE LeadingExp(r, j + 1)

FractionBits(whole, r) ==
    IF whole >= 1 THEN 52 - Log2Floor(whole) ELSE 52 + LeadingExp(r, 1)

\* int((seconds % 1) * 1000) for seconds = the double nearest to whole + r/1000.
\* seconds % 1 is exact; it is r/1000 less rem/(1000 * 2^f) when the double was
\* rounded down, and the product with 1000 is then r - rem/2^f, which rounds
\* back to r only if it lies within half a unit in the last place below r.
MillisField(whole, r) ==
    IF r = 0 THEN 0
    ELSE LET f == FractionBits(whole, r)
             remPrev == FracRemainder(r, f - 1)
             rem == (2 * remPrev) % 1000
             lastBit == IF 2 * remPrev >= 1000 THEN 1 ELSE 0
             roundedUp == 2 * rem > 1000 \/ (2 * rem = 1000 /\ lastBit = 1)
             e == Log2Floor(r)
             expBelow == IF Pow2(e) = r THEN e - 1 ELSE e
             x == f + expBelow - 53
         IN  IF rem = 0 \/ roundedUp THEN r
             ELSE IF x >= 0 /\ rem <= Pow2(x) THEN r
             ELSE r - 1

\* format_srt_timestamp(seconds) -> "HH:MM:SS,mmm"
format_srt_timestamp(k) ==
    LET whole == k \div 1000
        hours == whole \div 3600
        minutes == (whole % 3600) \div 60
        secs == whole % 60
        milliseconds == MillisField(whole, k % 1000)
    IN  ZeroPad(DecimalDigits(hours), 2) \o <<":">> \o
        ZeroPad(DecimalDigits(minutes), 2) \o <<":">> \o
        ZeroPad(DecimalDigits(secs), 2) \o <<",">> \o
        ZeroPad(DecimalDigits(milliseconds), 3)

\* parse_timestamp(hours, minutes, seconds, milliseconds), each a digit string
parse_timestamp(hours, minutes, seconds, milliseconds) ==
    (DigitsValue(hours) * 3600 + DigitsValue(minutes) * 60 + DigitsValue(seconds)) * 1000
    + DigitsValue(milliseconds)

AllDigits(s, from, to) == \A i \in from..to : i <= Len(s) /\ IsDigit(s[i])

\* (\d{2}):(\d{2}):(\d{2}),(\d{3}) matched at offset i of s
TimecodeAt(s, i) ==
    /\ i + 11 <= Len(s)
    /\ AllDigits(s, i, i + 1) /\ s[i + 2] = ":"
    /\ AllDigits(s, i + 3, i + 4) /\ s[i + 5] = ":"
    /\ AllDigits(s, i + 6, i + 7) /\ s[i + 8] = ","
    /\ AllDigits(s, i + 9, i + 11)

TimecodeValue(s, i) ==
    parse_timestamp(SubSeq(s, i, i + 1), SubSeq(s, i + 3, i + 4),
                    SubSeq(s, i + 6, i + 7), SubSeq(s, i + 9, i + 11))

(***************************************************************************)
(* The codec on its own: format a time, then parse the four fields back    *)
(***************************************************************************)
MaxCodecMs == 2100
MaxMs == 100 * 3600 * 1000 - 1

CodecTimes == (0..MaxCodecMs) \cup {59999, 3599999, 3600000, 3661001, MaxMs - 1, MaxMs}

CodecInit ==
    /\ c_pc = "start"
    /\ c_t \in CodecTimes
    /\ c_str = <<>>
    /\ c_parsed = -1

CodecFormat ==
    /\ c_pc = "start"
    /\ c_str' = format_srt_timestamp(c_t)
    /\ c_pc' = "formatted"
    /\ UNCHANGED <<c_t, c_parsed, notCodec>>

CodecParse ==
    /\ c_pc = "formatted"
    /\ TimecodeAt(c_str, 1)
    /\ c_parsed' = TimecodeValue(c_str, 1)
    /\ c_pc' = "parsed"
    /\ UNCHANGED <<c_t, c_str, notCodec>>

CodecNext == CodecFormat \/ CodecParse

InitCodec == CodecInit /\ DocIdle /\ MergerIdle /\ SpeakerIdle /\ GrouperIdle /\ PipelineIdle /\ JobIdle /\ FilterIdle /\ QueueIdle

SpecCodec == InitCodec /\ [][CodecNext]_vars

\* C8: for every whole number of milliseconds t up to 99:59:59.999, parsing the
\* four fields of format_srt_timestamp(t) returns t.
C8_TimecodeRoundTrip == c_pc = "parsed" => c_parsed = c_t

\* format_srt_timestamp truncates: the formatted time is t or the millisecond
\* below it, and its minute, second and millisecond fields stay in range.
CodecFieldsInRange ==
    c_pc = "parsed" =>
        /\ Len(c_str) = 12
        /\ c_parsed <= c_t
        /\ c_t - c_parsed <= 1
        /\ DigitsValue(SubSeq(c_str, 4, 5)) < 60
        /\ DigitsValue(SubSeq(c_str, 7, 8)) < 60
        /\ DigitsValue(SubSeq(c_str, 10, 12)) < 1000

(***************************************************************************)
(* Cues and the SRT document: SRTSegment, parse_srt, the serializer        *)
(***************************************************************************)
SRTSegment(index, start_time, end_time, text) ==
    [index |-> index, start_time |-> start_time, end_time |-> end_time, text |-> text]

\* int(s) of a str: [ok |-> FALSE] stands for ValueError
PyInt(s) ==
    LET t == Strip(s)
        signed == t # <<>> /\ t[1] \in {"+", "-"}
        body == IF signed THEN Tail(t) ELSE t
        wellFormed ==
            /\ body # <<>>
            /\ \A i \in 1..Len(body) :
                \/ IsDigit(body[i])
                \/ /\ body[i] = "_"
                   /\ i > 1 /\ i < Len(body)
                   /\ IsDigit(body[i - 1]) /\ IsDigit(body[i + 1])
        magnitude == DigitsValue(SelectSeq(body, IsDigit))
    IN  IF ~wellFormed THEN [ok |-> FALSE, value |-> 0]
        ELSE [ok |-> TRUE,
              value |-> IF signed /\ t[1] = "-" THEN 0 - magnitude ELSE magnitude]

RECURSIVE SkipSpaces(_, _)
SkipSpaces(s, i) == IF i <= Len(s) /\ IsSpace(s[i]) THEN SkipSpaces(s, i + 1) ELSE i

Arrow == <<"-", "-", ">">>

\* re.match of  timecode \s*-->\s* timecode  at the start of the time line
TimeLineMatches(line) ==
    /\ TimecodeAt(line, 1)
    /\ MatchAt(line, SkipSpaces(line, 13), Arrow)
    /\ TimecodeAt(line, SkipSpaces(line, SkipSpaces(line, 13) + 3))

\* one block of parse_srt: the cue it yields, or nothing when it is skipped
ParseBlock(block) ==
    LET lines == SplitOn(Strip(block), <<"\n">>) IN
    IF Len(lines) < 3 THEN <<>>
    ELSE IF ~PyInt(lines[1]).ok THEN <<>>
    ELSE IF ~TimeLineMatches(lines[2]) THEN <<>>
    ELSE <<SRTSegment(PyInt(lines[1]).value,
                      TimecodeValue(lines[2], 1),
                      TimecodeValue(lines[2], SkipSpaces(lines[2], SkipSpaces(lines[2], 13) + 3)),
                      Join(SubSeq(lines, 3, Len(lines)), <<"\n">>))>>

\* ParseBlocks giving up at the first block that is skipped
RECURSIVE ParseBlocksUntilSkipped(_)
ParseBlocksUntilSkipped(blocks) ==
    IF blocks = <<>> \/ ParseBlock(Head(blocks)) = <<>> THEN <<>>
    ELSE ParseBlock(Head(blocks)) \o ParseBlocksUntilSkipped(Tail(blocks))

RECURSIVE ParseBlocks(_)
ParseBlocks(blocks) ==
    IF blocks = <<>> THEN <<>> ELSE ParseBlock(Head(blocks)) \o ParseBlocks(Tail(blocks))

parse_srt(srt_content) == ParseBlocks(SplitOn(Strip(srt_content), <<"\n", "\n">>))

\* the four lines the serializer emits for the cue numbered i
CueLines(i, segment) ==
    << DecimalDigits(i),
       format_srt_timestamp(segment.start_time) \o <<" ">> \o Arrow \o <<" ">>
           \o format_srt_timestamp(segment.end_time),
       segment.text,
       <<>> >>

RECURSIVE ResultLines(_, _)
ResultLines(segments, i) ==
    IF segments = <<>> THEN <<>>
    ELSE CueLines(i, Head(segments)) \o ResultLines(Tail(segments), i + 1)

\* the document attempt_transcription writes, numbered by segment.index
RECURSIVE SrtLines(_)
SrtLines(subtitle_segments) ==
    IF subtitle_segments = <<>> THEN <<>>
    ELSE CueLines(Head(subtitle_segments).index, Head(subtitle_segments))
            \o SrtLines(Tail(subtitle_segments))

\* FormatSegments with every cue numbered by the index it carries
FormatSegmentsKeepingIndex(segments) == Join(SrtLines(segments), <<"\n">>)

\* "Re-index and format": cues numbered 1..N in list order, joined by newlines
FormatSegments(segments) == Join(ResultLines(segments, 1), <<"\n">>)

(***************************************************************************)
(* Sample texts                                                            *)
(***************************************************************************)
TxtAndThenWeSawThe == <<"a", "n", "d", " ", "t", "h", "e", "n", " ", "w", "e", " ", "s", "a", "w", " ", "t", "h", "e">>
TxtWeSawTheResults == <<"w", "e", " ", "s", "a", "w", " ", "t", "h", "e", " ", "r", "e", "s", "u", "l", "t", "s">>
TxtHelloThereFriend == <<"h", "e", "l", "l", "o", " ", "t", "h", "e", "r", "e", " ", "f", "r", "i", "e", "n", "d">>
TxtMerci == <<"M", "e", "r", "c", "i", ".">>
TxtHelloWorld == <<"h", "e", "l", "l", "o", " ", "w", "o", "r", "l", "d">>
TxtSomethingElse == <<"s", "o", "m", "e", "t", "h", "i", "n", "g", " ", "e", "l", "s", "e">>
TxtTwoLines == <<"h", "i", " ", "t", "h", "e", "r", "e", "\n", "f", "r", "i", "e", "n", "d">>

(***************************************************************************)
(* The document codec on its own: serialize a valid cue sequence, parse it *)
(***************************************************************************)
MaxDocCues == 2

DocTimes == {0, 1001, 2500, 4000}
DocTexts == {TxtHelloWorld, TxtTwoLines, TxtMerci}

DocCues ==
    {SRTSegment(0, s, e, x) : <<s, e, x>> \in
        {y \in DocTimes \X DocTimes \X DocTexts : y[1] < y[2]}}

\* sorted by start, no overlap, start < end for every cue
ValidSequence(cues) ==
    /\ \A i \in 1..Len(cues) : cues[i].start_time < cues[i].end_time
    /\ \A i \in 1..(Len(cues) - 1) :
        /\ cues[i].start_time <= cues[i + 1].start_time
        /\ cues[i].end_time <= cues[i + 1].start_time

DocInputs ==
    {cues \in UNION {[1..n -> DocCues] : n \in 0..MaxDocCues} : ValidSequence(cues)}

DocInit ==
    /\ d_pc = "start"
    /\ d_cues \in DocInputs
    /\ d_doc = <<>>
    /\ d_parsed = <<>>
    /\ d_blocks = <<>>

DocSerialize ==
    /\ d_pc = "start"
    /\ d_doc' = FormatSegments(d_cues)
    /\ d_pc' = "serialized"
    /\ UNCHANGED <<d_cues, d_parsed, d_blocks, notDoc>>

DocParse ==
    /\ d_pc = "serialized"
    /\ d_parsed' = parse_srt(d_doc)
    /\ d_pc' = "parsed"
    /\ UNCHANGED <<d_cues, d_doc, d_blocks, notDoc>>

DocNext == DocSerialize \/ DocParse

InitDoc == DocInit /\ CodecIdle /\ MergerIdle /\ SpeakerIdle /\ GrouperIdle /\ PipelineIdle /\ JobIdle /\ FilterIdle /\ QueueIdle

SpecDoc == InitDoc /\ [][DocNext]_vars

SameCue(a, b) ==
    a.start_time = b.start_time /\ a.end_time = b.end_time /\ a.text = b.text

\* C9: parsing the serialized document of a valid cue sequence (times in whole
\* milliseconds) returns as many cues, with the same start, end and text per
\* cue, in the same order.
C9_DocumentRoundTrip ==
    d_pc = "parsed" =>
        /\ Len(d_parsed) = Len(d_cues)
        /\ \A i \in 1..Len(d_cues) : SameCue(d_parsed[i], d_cues[i])

\* what the round trip does keep: the number of cues, their order and texts,
\* and every time to within the millisecond format_srt_timestamp may drop
DocRoundTripUpToOneMs ==
    d_pc = "parsed" =>
        /\ Len(d_parsed) = Len(d_cues)
        /\ \A i \in 1..Len(d_cues) :
            /\ d_parsed[i].text = d_cues[i].text
            /\ d_parsed[i].index = i
            /\ d_cues[i].start_time - d_parsed[i].start_time \in {0, 1}
            /\ d_cues[i].end_time - d_parsed[i].end_time \in {0, 1}

(***************************************************************************)
(* Text similarity: calculate_jaccard_trigram                              *)
(***************************************************************************)
get_trigrams(text) ==
    LET t == Strip(Lower(text)) IN
    IF Len(t) < 3 THEN {t}
    ELSE {SubSeq(t, i, i + 2) : i \in 1..(Len(t) - 2)}

\* a similarity is the fraction num/den, compared exactly
Fraction(num, den) == [num |-> num, den |-> den]

calculate_jaccard_trigram(text1, text2) ==
    LET trigrams1 == get_trigrams(text1)
        trigrams2 == get_trigrams(text2)
    IN  IF trigrams1 = {} /\ trigrams2 = {} THEN Fraction(1, 1)
        ELSE IF trigrams1 = {} \/ trigrams2 = {} THEN Fraction(0, 1)
        ELSE Fraction(Cardinality(trigrams1 \cap trigrams2),
                      Cardinality(trigrams1 \cup trigrams2))

\* sim > a/b and sim >= a/b
SimAbove(sim, a, b) == sim.num * b > a * sim.den
SimAtLeast(sim, a, b) == sim.num * b >= a * sim.den

(***************************************************************************)
(* Chunk merger: remove_overlapping_segments                               *)
(***************************************************************************)
\* string.punctuation
Punctuation ==
    {"!", "\"", "#", "$", "%", "&", "'", "(", ")", "*", "+", ",", "-", ".", "/", ":",
     ";", "<", "=", ">", "?", "@", "[", "\\", "]", "^", "_", Backtick, "{", "|", "}", "~"}

NotPunctuation(c) == c \notin Punctuation

\* lowercase, newlines to spaces, punctuation removed, split on whitespace
NormalizedWords(text) ==
    SplitWs(SelectSeq(ReplaceChar(Lower(text), "\n", " "), NotPunctuation))

Min(a, b) == IF a < b THEN a ELSE b
Max(a, b) == IF a > b THEN a ELSE b

OverlapCheckLen(prev_words, curr_words) ==
    Min(5, Min(Len(prev_words), Len(curr_words)))

InSeq(x, seq) == \E i \in 1..Len(seq) : seq[i] = x

\* has_boundary_overlap with each window as long as its own text allows, counting
\* the last words of previous that occur among the first words of current
BoundaryOverlapOwnWindows(previous, current) ==
    LET prev_words == NormalizedWords(previous.text)
        curr_words == NormalizedWords(current.text)
        prev_end == SubSeq(prev_words, Len(prev_words) - Min(5, Len(prev_words)) + 1,
                           Len(prev_words))
        curr_start == SubSeq(curr_words, 1, Min(5, Len(curr_words)))
        matching_words == Cardinality({i \in 1..Len(prev_end) : InSeq(prev_end[i], curr_start)})
    IN  matching_words >= 2

\* at least 2 of the first words of current occur among the last words of previous
has_boundary_overlap(previous, current) ==
    LET prev_words == NormalizedWords(previous.text)
        curr_words == NormalizedWords(current.text)
        n == OverlapCheckLen(prev_words, curr_words)
        prev_end == SubSeq(prev_words, Len(prev_words) - n + 1, Len(prev_words))
        curr_start == SubSeq(curr_words, 1, n)
        matching_words == Cardinality({i \in 1..n : InSeq(curr_start[i], prev_end)})
    IN  n >= 2 /\ matching_words >= 2

Overlaps(previous, current) == current.start_time < previous.end_time

SimilarContent(previous, current) ==
    \/ SimAbove(calculate_jaccard_trigram(previous.text, current.text), 1, 2)
    \/ has_boundary_overlap(previous, current)

\* MergedSegment giving previous the text of current when the two are equally long
MergedSegmentCurrentOnTie(previous, current) ==
    [previous EXCEPT
        !.text = IF Len(current.text) >= Len(previous.text) THEN current.text ELSE @,
        !.end_time = Max(previous.end_time, current.end_time)]

\* MERGE: previous takes the longer text and the later end
MergedSegment(previous, current) ==
    [previous EXCEPT
        !.text = IF Len(current.text) > Len(previous.text) THEN current.text ELSE @,
        !.end_time = Max(previous.end_time, current.end_time)]

GapMs == 100

\* AdjustedSegment with current starting where previous ends, without the gap
AdjustedSegmentWithoutGap(previous, current) ==
    [current EXCEPT !.start_time = previous.end_time]

\* ADJUST TIMING: current starts 100 ms after previous ends
AdjustedSegment(previous, current) ==
    [current EXCEPT !.start_time = previous.end_time + GapMs]

ReplaceLast(cleaned, segment) == [cleaned EXCEPT ![Len(cleaned)] = segment]

\* one iteration of the STEP 2 loop
MergerStep(cleaned, current) ==
    LET previous == cleaned[Len(cleaned)] IN
    IF Overlaps(previous, current)
    THEN IF SimilarContent(previous, current)
         THEN ReplaceLast(cleaned, MergedSegment(previous, current))
         ELSE Append(cleaned, AdjustedSegment(previous, current))
    ELSE Append(cleaned, current)

HasValidTimestamps(seg) == seg.start_time < seg.end_time

\* STEP 1 keeping the cues with start = end
ValidSegmentsKeepingEmpty(segments) ==
    SelectSeq(segments, LAMBDA seg : seg.start_time <= seg.end_time)

\* STEP 1
ValidSegments(segments) == SelectSeq(segments, HasValidTimestamps)

RECURSIVE MergerLoop(_, _)
MergerLoop(cleaned, rest) ==
    IF rest = <<>> THEN cleaned
    ELSE MergerLoop(MergerStep(cleaned, Head(rest)), Tail(rest))

remove_overlapping_segments(segments) ==
    IF segments = <<>> THEN segments
    ELSE IF ValidSegments(segments) = <<>> THEN <<>>
    ELSE MergerLoop(<<Head(ValidSegments(segments))>>, Tail(ValidSegments(segments)))

(***************************************************************************)
(* remove_overlapping_segments step by step, on sorted cue lists           *)
(***************************************************************************)
TxtHelloWorldBang == <<"H", "e", "l", "l", "o", " ", "w", "o", "r", "l", "d", "!">>

TxtHelloWorldUpper == <<"H", "E", "L", "L", "O", " ", "W", "O", "R", "L", "D">>

TxtAndThen == <<"a", "n", "d", " ", "t", "h", "e", "n">>
TxtTheThe == <<"t", "h", "e", " ", "t", "h", "e">>

MaxMergerCues == 3

MergerIntervals ==
    {<<0, 5000>>, <<4000, 4500>>, <<4600, 8000>>, <<3000, 3000>>, <<12800, 16000>>}
MergerTexts == {TxtHelloWorld, TxtHelloWorldBang, TxtMerci, TxtSomethingElse}

MergerCues ==
    {SRTSegment(0, y[1][1], y[1][2], y[2]) : y \in MergerIntervals \X MergerTexts}
    \cup {SRTSegment(0, 10000, 13000, TxtAndThenWeSawThe),
          SRTSegment(0, 12800, 16000, TxtWeSawTheResults),
          SRTSegment(0, 4600, 8000, TxtHelloWorldUpper),
          SRTSegment(0, 12800, 16000, TxtAndThen),
          SRTSegment(0, 12800, 16000, TxtTheThe),
          SRTSegment(0, 4600, 4000, TxtHelloWorld)}

SortedByStart(cues) ==
    \A i \in 1..(Len(cues) - 1) : cues[i].start_time <= cues[i + 1].start_time

MergerInputs ==
    {cues \in UNION {[1..n -> MergerCues] : n \in 0..MaxMergerCues} : SortedByStart(cues)}

MergerInit ==
    /\ m_pc = "start"
    /\ m_segments \in MergerInputs
    /\ m_valid = <<>>
    /\ m_i = 0
    /\ m_cleaned = <<>>
    /\ m_last = NoStep
    /\ m_out = <<>>

\* if not segments: return segments
MergerReturnArgument ==
    /\ m_pc = "start"
    /\ m_segments = <<>>
    /\ m_out' = m_segments
    /\ m_pc' = "done"
    /\ UNCHANGED <<m_segments, m_valid, m_i, m_cleaned, m_last, notMerger>>

\* STEP 1: drop the segments with start >= end
MergerDropInvalid ==
    /\ m_pc = "start"
    /\ m_segments # <<>>
    /\ m_valid' = ValidSegments(m_segments)
    /\ m_pc' = "filtered"
    /\ UNCHANGED <<m_segments, m_i, m_cleaned, m_last, m_out, notMerger>>

\* if not valid_segments: return []
MergerReturnEmpty ==
    /\ m_pc = "filtered"
    /\ m_valid = <<>>
    /\ m_out' = <<>>
    /\ m_pc' = "done"
    /\ UNCHANGED <<m_segments, m_valid, m_i, m_cleaned, m_last, notMerger>>

\* cleaned = [valid_segments[0]]
MergerFirst ==
    /\ m_pc = "filtered"
    /\ m_valid # <<>>
    /\ m_cleaned' = <<m_valid[1]>>
    /\ m_i' = 2
    /\ m_pc' = "loop"
    /\ UNCHANGED <<m_segments, m_valid, m_last, m_out, notMerger>>

MergerIterate(kind) ==
    /\ m_cleaned' = MergerStep(m_cleaned, m_valid[m_i])
    /\ m_last' = [kind |-> kind, previous |-> m_cleaned[Len(m_cleaned)],
                  current |-> m_valid[m_i]]
    /\ m_i' = m_i + 1
    /\ UNCHANGED <<m_pc, m_segments, m_valid, m_out, notMerger>>

\* overlap with similar content: merge current into previous
MergerMerge ==
    /\ m_pc = "loop" /\ m_i <= Len(m_valid)
    /\ Overlaps(m_cleaned[Len(m_cleaned)], m_valid[m_i])
    /\ SimilarContent(m_cleaned[Len(m_cleaned)], m_valid[m_i])
    /\ MergerIterate("merge")

\* overlap with different content: move the start of current
MergerAdjust ==
    /\ m_pc = "loop" /\ m_i <= Len(m_valid)
    /\ Overlaps(m_cleaned[Len(m_cleaned)], m_valid[m_i])
    /\ ~SimilarContent(m_cleaned[Len(m_cleaned)], m_valid[m_i])
    /\ MergerIterate("adjust")

\* no overlap: add as is
MergerAccept ==
    /\ m_pc = "loop" /\ m_i <= Len(m_valid)
    /\ ~Overlaps(m_cleaned[Len(m_cleaned)], m_valid[m_i])
    /\ MergerIterate("accept")

\* return cleaned
MergerReturn ==
    /\ m_pc = "loop" /\ m_i > Len(m_valid)
    /\ m_out' = m_cleaned
    /\ m_pc' = "done"
    /\ UNCHANGED <<m_segments, m_valid, m_i, m_cleaned, m_last, notMerger>>

MergerNext ==
    \/ MergerReturnArgument \/ MergerDropInvalid \/ MergerReturnEmpty \/ MergerFirst
    \/ MergerMerge \/ MergerAdjust \/ MergerAccept \/ MergerReturn

InitMerger == MergerInit /\ CodecIdle /\ DocIdle /\ SpeakerIdle /\ GrouperIdle /\ PipelineIdle /\ JobIdle /\ FilterIdle /\ QueueIdle

SpecMerger == InitMerger /\ [][MergerNext]_vars

\* the loop computes what the function returns
MergerStepsAgree == m_pc = "done" => m_out = remove_overlapping_segments(m_segments)

\* the words of a text, case and punctuation aside
WordSet(text) == {NormalizedWords(text)[i] : i \in 1..Len(NormalizedWords(text))}

\* C2 (Chunk Merger): no cue with start >= end is in the Merger's output,
\* including a cue whose start was moved to p.end + 0.1.
C2_NoInvalidCueAfterMerger ==
    m_pc = "done" => \A i \in 1..Len(m_out) : m_out[i].start_time < m_out[i].end_time

\* C4: whenever the Merger merges c into the last accepted cue p, every word of
\* p.text and of c.text before the merge occurs in p.text after the merge.
C4_MergeKeepsAllWords ==
    m_last.kind = "merge" =>
        (WordSet(m_last.previous.text) \cup WordSet(m_last.current.text))
            \subseteq WordSet(m_cleaned[Len(m_cleaned)].text)

\* C6: from accepted cue {10.0-13.0, "and then we saw the"} and next cue
\* {12.8-16.0, "we saw the results"} the Merger outputs exactly one cue,
\* {10.0-16.0, "and then we saw the results"}.
C6_DuplicateOverlapScenario ==
    (/\ m_pc = "done"
     /\ m_segments = <<SRTSegment(0, 10000, 13000, TxtAndThenWeSawThe),
                       SRTSegment(0, 12800, 16000, TxtWeSawTheResults)>>)
    => /\ Len(m_out) = 1
       /\ m_out[1].start_time = 10000
       /\ m_out[1].end_time = 16000
       /\ m_out[1].text = TxtAndThenWeSawThe \o <<" ">> \o <<"r", "e", "s", "u", "l", "t", "s">>

(***************************************************************************)
(* Speaker re-segmenter: apply_speaker_segmentation                        *)
(***************************************************************************)
SpeakerSegment(start, end, speaker) == [start |-> start, end |-> end, speaker |-> speaker]

\* SpeakerChangesFrom recording every interval that touches the cue as a change
RECURSIVE SpeakerChangesEveryInterval(_, _, _, _)
SpeakerChangesEveryInterval(speaker_segments, start_time, end_time, current_speaker) ==
    IF speaker_segments = <<>> THEN <<>>
    ELSE LET seg == Head(speaker_segments)
             rest == Tail(speaker_segments)
         IN  IF seg.end < start_time \/ seg.start > end_time
             THEN SpeakerChangesEveryInterval(rest, start_time, end_time, current_speaker)
             ELSE <<[time |-> Max(seg.start, start_time), speaker |-> seg.speaker]>>
                  \o SpeakerChangesEveryInterval(rest, start_time, end_time, seg.speaker)

\* find_speaker_changes: the (time, speaker) pairs of the intervals that touch
\* [start_time, end_time] and name another speaker than the one before
RECURSIVE SpeakerChangesFrom(_, _, _, _)
SpeakerChangesFrom(speaker_segments, start_time, end_time, current_speaker) ==
    IF speaker_segments = <<>> THEN <<>>
    ELSE LET seg == Head(speaker_segments)
             rest == Tail(speaker_segments)
         IN  IF seg.end < start_time \/ seg.start > end_time
             THEN SpeakerChangesFrom(rest, start_time, end_time, current_speaker)
             ELSE IF seg.speaker # current_speaker
             THEN <<[time |-> Max(seg.start, start_time), speaker |-> seg.speaker]>>
                  \o SpeakerChangesFrom(rest, start_time, end_time, seg.speaker)
             ELSE SpeakerChangesFrom(rest, start_time, end_time, current_speaker)

\* find_speaker_changes with every change at the start of its interval, not
\* clipped to the start of the cue
RECURSIVE ChangesAtIntervalStart(_, _, _, _)
ChangesAtIntervalStart(speaker_segments, start_time, end_time, current_speaker) ==
    IF speaker_segments = <<>> THEN <<>>
    ELSE LET seg == Head(speaker_segments)
             rest == Tail(speaker_segments)
         IN  IF seg.end < start_time \/ seg.start > end_time
             THEN ChangesAtIntervalStart(rest, start_time, end_time, current_speaker)
             ELSE IF seg.speaker # current_speaker
             THEN <<[time |-> seg.start, speaker |-> seg.speaker]>>
                  \o ChangesAtIntervalStart(rest, start_time, end_time, seg.speaker)
             ELSE ChangesAtIntervalStart(rest, start_time, end_time, current_speaker)

find_speaker_changes_unclipped(speaker_segments, start_time, end_time) ==
    ChangesAtIntervalStart(speaker_segments, start_time, end_time, "None")

find_speaker_changes(speaker_segments, start_time, end_time) ==
    SpeakerChangesFrom(speaker_segments, start_time, end_time, "None")

\* segment.text.replace('\n', ' ').split()
SegmentWords(segment) == SplitWs(ReplaceChar(segment.text, "\n", " "))

\* the cue is split: more than one change and at least one word
IsSplit(segment, speaker_segments) ==
    /\ Len(find_speaker_changes(speaker_segments, segment.start_time, segment.end_time)) > 1
    /\ SegmentWords(segment) # <<>>

Abs(a) == IF a < 0 THEN 0 - a ELSE a

\* int(a / b): the quotient truncated toward zero
TruncDiv(a, b) ==
    IF (a >= 0) = (b > 0) THEN Abs(a) \div Abs(b) ELSE 0 - (Abs(a) \div Abs(b))

\* next_change_time - change_time of change i
ChangeDuration(changes, i, segment) ==
    (IF i < Len(changes) THEN changes[i + 1].time ELSE segment.end_time) - changes[i].time

\* NumWords with the quotient rounded to the nearest whole number
NumWordsRounded(segment_duration, word_count, total_duration, roundsBelow) ==
    Max(1, (2 * segment_duration * word_count + Abs(total_duration))
               \div (2 * Abs(total_duration)))

\* max(1, int(segment_duration / duration_per_word)), with
\* duration_per_word = total_duration / len(words).  When the exact quotient
\* is a whole number the double quotient may fall just below it (0.7 / 0.1 is
\* 6.999999999999999): roundsBelow says that it does.
NumWords(segment_duration, word_count, total_duration, roundsBelow) ==
    LET quotient == TruncDiv(segment_duration * word_count, total_duration)
        exact == (segment_duration * word_count) % Abs(total_duration) = 0
    IN  Max(1, IF exact /\ roundsBelow /\ quotient >= 2 THEN quotient - 1 ELSE quotient)

\* AppendRemaining with the remaining words dropped
AppendRemainingDropped(new_segments, words, word_index) == new_segments

\* Add any remaining words to the last segment
AppendRemaining(new_segments, words, word_index) ==
    IF word_index < Len(words) /\ new_segments # <<>>
    THEN ReplaceLast(new_segments,
            [new_segments[Len(new_segments)] EXCEPT
                !.text = @ \o <<" ">> \o Join(SubSeq(words, word_index + 1, Len(words)), <<" ">>)])
    ELSE new_segments

\* the loop over speaker_changes of one split cue; word_index counts the words
\* given out so far, below is the set of changes whose quotient rounds below
RECURSIVE SplitLoop(_, _, _, _, _, _, _)
SplitLoop(new_segments, segment, words, changes, i, word_index, below) ==
    IF i > Len(changes) THEN AppendRemaining(new_segments, words, word_index)
    ELSE LET next_change_time ==
                 IF i < Len(changes) THEN changes[i + 1].time ELSE segment.end_time
             num_words == NumWords(ChangeDuration(changes, i, segment), Len(words),
                                   segment.end_time - segment.start_time, i \in below)
             segment_words ==
                 SubSeq(words, word_index + 1, Min(word_index + num_words, Len(words)))
         IN  IF segment_words = <<>>
             THEN SplitLoop(new_segments, segment, words, changes, i + 1, word_index, below)
             ELSE SplitLoop(
                    Append(new_segments,
                           SRTSegment(0, changes[i].time,
                                      Min(next_change_time, segment.end_time),
                                      Join(segment_words, <<" ">>))),
                    segment, words, changes, i + 1, word_index + num_words, below)

\* the body of the loop over segments
ProcessSegment(new_segments, segment, speaker_segments, below) ==
    IF IsSplit(segment, speaker_segments)
    THEN SplitLoop(new_segments, segment, SegmentWords(segment),
                   find_speaker_changes(speaker_segments, segment.start_time, segment.end_time),
                   1, 0, below)
    ELSE Append(new_segments, segment)

\* for j = from..: new_segments after the cues from j on, with the number of
\* cues each of them added; below holds pairs <<cue, change>>
RECURSIVE SegmentsLoop(_, _, _, _, _)
SegmentsLoop(acc, segments, j, speaker_segments, below) ==
    IF j > Len(segments) THEN acc
    ELSE LET after == ProcessSegment(acc.new_segments, segments[j], speaker_segments,
                                     {i \in 1..Len(speaker_segments) : <<j, i>> \in below})
         IN  SegmentsLoop([new_segments |-> after,
                           counts |-> Append(acc.counts, Len(after) - Len(acc.new_segments))],
                          segments, j + 1, speaker_segments, below)

\* Re-index segments
Reindex(segments) == [i \in 1..Len(segments) |-> [segments[i] EXCEPT !.index = i]]

apply_speaker_segmentation(segments, speaker_segments, below) ==
    IF speaker_segments = <<>> THEN segments
    ELSE Reindex(SegmentsLoop([new_segments |-> <<>>, counts |-> <<>>],
                              segments, 1, speaker_segments, below).new_segments)

\* segment_duration / duration_per_word raises ZeroDivisionError for a split
\* cue of zero duration
SpeakerRaises(segments, speaker_segments) ==
    \E j \in 1..Len(segments) :
        /\ IsSplit(segments[j], speaker_segments)
        /\ segments[j].end_time = segments[j].start_time

\* the <<cue, change>> pairs whose quotient is a whole number of at least 2
ExactQuotients(segments, speaker_segments) ==
    {p \in (1..Len(segments)) \X (1..Len(speaker_segments)) :
        LET segment == segments[p[1]]
            changes == find_speaker_changes(speaker_segments, segment.start_time,
                                            segment.end_time)
            total == segment.end_time - segment.start_time
        IN  /\ IsSplit(segment, speaker_segments)
            /\ p[2] <= Len(changes)
            /\ total # 0
            /\ (ChangeDuration(changes, p[2], segment) * Len(SegmentWords(segment)))
                   % Abs(total) = 0
            /\ TruncDiv(ChangeDuration(changes, p[2], segment) * Len(SegmentWords(segment)),
                        total) >= 2}

(***************************************************************************)
(* apply_speaker_segmentation on cue lists and sorted speaker intervals    *)
(***************************************************************************)
MaxSpeakerCues == 2
MaxSpeakerIntervals == 3

SpeakerCuePool ==
    {SRTSegment(1, 0, 4000, TxtHelloThereFriend),
     SRTSegment(1, 0, 4000, TxtWeSawTheResults),
     SRTSegment(1, 1000, 3000, TxtTwoLines),
     SRTSegment(2, 4000, 6000, TxtHelloWorld),
     SRTSegment(2, 4000, 4000, TxtMerci)}

SpeakerPool ==
    {SpeakerSegment(0, 2000, "A"), SpeakerSegment(2000, 4000, "B"),
     SpeakerSegment(4000, 6000, "C"), SpeakerSegment(0, 4000, "A"),
     SpeakerSegment(2000, 3000, "A"), SpeakerSegment(5000, 6000, "B")}

SpeakerCueInputs ==
    {cues \in UNION {[1..n -> SpeakerCuePool] : n \in 0..MaxSpeakerCues} :
        SortedByStart(cues)}

SpeakerInputs ==
    {segs \in UNION {[1..n -> SpeakerPool] : n \in 0..MaxSpeakerIntervals} :
        \A i \in 1..(Len(segs) - 1) : segs[i].start <= segs[i + 1].start}

SpeakerInit ==
    /\ s_pc = "start"
    /\ s_segments \in SpeakerCueInputs
    /\ s_speakers \in SpeakerInputs
    /\ s_out = <<>>
    /\ s_counts = <<>>

\* if not speaker_segments: return segments
SpeakerReturnOriginal ==
    /\ s_pc = "start"
    /\ s_speakers = <<>>
    /\ s_out' = apply_speaker_segmentation(s_segments, s_speakers, {})
    /\ s_counts' = [j \in 1..Len(s_segments) |-> 1]
    /\ s_pc' = "done"
    /\ UNCHANGED <<s_segments, s_speakers, notSpeaker>>

\* the loop over segments and the re-indexing
SpeakerApply ==
    /\ s_pc = "start"
    /\ s_speakers # <<>>
    /\ ~SpeakerRaises(s_segments, s_speakers)
    /\ \E below \in SUBSET ExactQuotients(s_segments, s_speakers) :
        /\ s_out' = apply_speaker_segmentation(s_segments, s_speakers, below)
        /\ s_counts' = SegmentsLoop([new_segments |-> <<>>, counts |-> <<>>],
                                    s_segments, 1, s_speakers, below).counts
    /\ s_pc' = "done"
    /\ UNCHANGED <<s_segments, s_speakers, notSpeaker>>

\* ZeroDivisionError leaves the function
SpeakerRaise ==
    /\ s_pc = "start"
    /\ s_speakers # <<>>
    /\ SpeakerRaises(s_segments, s_speakers)
    /\ s_pc' = "raised"
    /\ UNCHANGED <<s_segments, s_speakers, s_out, s_counts, notSpeaker>>

SpeakerNext == SpeakerReturnOriginal \/ SpeakerApply \/ SpeakerRaise

InitSpeaker == SpeakerInit /\ CodecIdle /\ DocIdle /\ MergerIdle /\ GrouperIdle /\ PipelineIdle /\ JobIdle /\ FilterIdle /\ QueueIdle

SpecSpeaker == InitSpeaker /\ [][SpeakerNext]_vars

RECURSIVE SumTo(_, _)
SumTo(counts, j) == IF j = 0 THEN 0 ELSE counts[j] + SumTo(counts, j - 1)

\* the output cues made from input cue j
SubCues(j) == SubSeq(s_out, SumTo(s_counts, j - 1) + 1, SumTo(s_counts, j))

RECURSIVE WordsOfCues(_)
WordsOfCues(cues) ==
    IF cues = <<>> THEN <<>> ELSE SplitWs(Head(cues).text) \o WordsOfCues(Tail(cues))

C7_RoundedAllocation ==
    (/\ s_pc = "done"
     /\ s_segments = <<SRTSegment(1, 0, 4000, TxtHelloThereFriend)>>
     /\ s_speakers = <<SpeakerSegment(0, 2000, "A"), SpeakerSegment(2000, 4000, "B")>>)
    => /\ Len(s_out) = 2
       /\ s_out[1].start_time = 0 /\ s_out[1].end_time = 2000
       /\ s_out[1].text = <<"h", "e", "l", "l", "o", " ", "t", "h", "e", "r", "e">>
       /\ s_out[2].start_time = 2000 /\ s_out[2].end_time = 4000
       /\ s_out[2].text = <<"f", "r", "i", "e", "n", "d">>

\* C7 as the code has it: every sub-cue but the last of a split cue holds
\* max(1, int(duration * words / total)) words, the quotient truncated (one
\* less where the double quotient of a whole number falls below it), and the
\* example yields {0.0-2.0, "hello"}, {2.0-4.0, "there friend"}.
C7_TruncatedAllocation ==
    s_pc = "done" =>
        /\ \A j \in 1..Len(s_segments) :
            (IsSplit(s_segments[j], s_speakers)
             /\ s_segments[j].start_time < s_segments[j].end_time) =>
                \A k \in 1..(s_counts[j] - 1) :
                    LET sub == SubCues(j)[k]
                        got == Len(SplitWs(sub.text))
                        total == s_segments[j].end_time - s_segments[j].start_time
                        share == (sub.end_time - sub.start_time) * Len(SegmentWords(s_segments[j]))
                    IN  /\ got >= 1
                        /\ got = 1 \/ got * total <= share
                        /\ (got + 1) * total >= share
        /\ (/\ s_segments = <<SRTSegment(1, 0, 4000, TxtHelloThereFriend)>>
            /\ s_speakers = <<SpeakerSegment(0, 2000, "A"), SpeakerSegment(2000, 4000, "B")>>)
           => /\ Len(s_out) = 2
              /\ s_out[1].start_time = 0 /\ s_out[1].end_time = 2000
              /\ s_out[1].text = <<"h", "e", "l", "l", "o">>
              /\ s_out[2].start_time = 2000 /\ s_out[2].end_time = 4000
              /\ s_out[2].text = <<"t", "h", "e", "r", "e", " ", "f", "r", "i", "e", "n", "d">>

\* the example of C7 has been split
C7_Witness ==
    /\ s_pc = "done"
    /\ s_segments = <<SRTSegment(1, 0, 4000, TxtHelloThereFriend)>>
    /\ s_speakers = <<SpeakerSegment(0, 2000, "A"), SpeakerSegment(2000, 4000, "B")>>
    /\ Len(s_out) = 2

\* C2 (Speaker Re-segmenter): no sub-cue made from a cue with start < end has
\* start >= end.
SpeakerNoInvalidSubCue ==
    s_pc = "done" =>
        \A j \in 1..Len(s_segments) :
            s_segments[j].start_time < s_segments[j].end_time =>
                \A k \in 1..s_counts[j] :
                    SubCues(j)[k].start_time < SubCues(j)[k].end_time

(***************************************************************************)
(* Word grouper: group_words_into_subtitles                                *)
(***************************************************************************)
WordToken(word, start, end) == [word |-> word, start |-> start, end |-> end]

MaxCharsPerLine == 42
MaxLines == 2
MaxDurationMs == 7000
LinePauseMs == 800
LongPauseMs == 1500

\* the apostrophe, the hyphen and the en-dash
LeadingMarks == {"'", "-", EnDash}

\* the first loop: a word that starts with a leading mark is glued to the
\* word kept before it; words that are empty once stripped are left out
RECURSIVE MergeWordsFrom(_, _, _)
MergeWordsFrom(words, i, merged_words) ==
    IF i > Len(words) THEN merged_words
    ELSE LET word_dict == words[i]
             word == Strip(word_dict.word)
             prev == merged_words[Len(merged_words)]
         IN  IF word = <<>> THEN MergeWordsFrom(words, i + 1, merged_words)
             ELSE IF i > 1 /\ word[1] \in LeadingMarks /\ merged_words # <<>>
             THEN MergeWordsFrom(words, i + 1,
                    ReplaceLast(merged_words,
                        [prev EXCEPT !.word = RStrip(@) \o word, !.end = word_dict.end]))
             ELSE MergeWordsFrom(words, i + 1, Append(merged_words, word_dict))

MergedWords(words) == MergeWordsFrom(words, 1, <<>>)

LastChar(word) == word[Len(word)]

\* ' '.join(w['word'].strip() for w in line)
LineText(line) == Join([k \in 1..Len(line) |-> Strip(line[k].word)], <<" ">>)

\* the line-building loop of create_segment_from_words: all_lines, each line
\* a sequence of words
RECURSIVE BuildLines(_, _, _, _, _, _)
BuildLines(words_buffer, i, all_lines, current_line_words, current_length, max_chars) ==
    IF i > Len(words_buffer)
    THEN (IF current_line_words # <<>> THEN Append(all_lines, current_line_words)
          ELSE all_lines)
    ELSE LET word_dict == words_buffer[i]
             word == Strip(word_dict.word)
             prev_word_text == Strip(words_buffer[i - 1].word)
             prev_has_comma ==
                 /\ i > 1 /\ current_line_words # <<>>
                 /\ prev_word_text # <<>> /\ LastChar(prev_word_text) \in {",", ";"}
             has_pause ==
                 /\ i > 1 /\ current_line_words # <<>>
                 /\ word_dict.start - words_buffer[i - 1].end >= LinePauseMs
             word_len == Len(word) + 1
         IN  IF word = <<>>
             THEN BuildLines(words_buffer, i + 1, all_lines, current_line_words,
                             current_length, max_chars)
             ELSE IF (prev_has_comma \/ has_pause) /\ current_line_words # <<>>
             THEN BuildLines(words_buffer, i + 1, Append(all_lines, current_line_words),
                             <<word_dict>>, word_len, max_chars)
             ELSE IF current_length + word_len > max_chars /\ current_line_words # <<>>
             THEN BuildLines(words_buffer, i + 1, Append(all_lines, current_line_words),
                             <<word_dict>>, word_len, max_chars)
             ELSE BuildLines(words_buffer, i + 1, all_lines,
                             Append(current_line_words, word_dict),
                             current_length + word_len, max_chars)

RECURSIVE Flatten(_)
Flatten(lines) == IF lines = <<>> THEN <<>> ELSE Head(lines) \o Flatten(Tail(lines))

\* SegmentsFromLines taking one line more than max_lines for every cue
RECURSIVE SegmentsFromLinesOneMore(_, _, _, _)
SegmentsFromLinesOneMore(segments, all_lines, line_idx, max_lines) ==
    IF line_idx > Len(all_lines) THEN segments
    ELSE LET segment_lines ==
                 SubSeq(all_lines, line_idx, Min(line_idx + max_lines, Len(all_lines)))
             segment_words == Flatten(segment_lines)
         IN  IF segment_words = <<>>
             THEN SegmentsFromLinesOneMore(segments, all_lines, line_idx + max_lines + 1, max_lines)
             ELSE SegmentsFromLinesOneMore(
                    Append(segments,
                        SRTSegment(Len(segments) + 1,
                                   segment_words[1].start,
                                   segment_words[Len(segment_words)].end,
                                   Join([k \in 1..Len(segment_lines) |->
                                            LineText(segment_lines[k])], <<"\n">>))),
                    all_lines, line_idx + max_lines + 1, max_lines)

\* the loop that makes one cue of every max_lines lines
RECURSIVE SegmentsFromLines(_, _, _, _)
SegmentsFromLines(segments, all_lines, line_idx, max_lines) ==
    IF line_idx > Len(all_lines) THEN segments
    ELSE LET segment_lines ==
                 SubSeq(all_lines, line_idx, Min(line_idx + max_lines - 1, Len(all_lines)))
             segment_words == Flatten(segment_lines)
         IN  IF segment_words = <<>>
             THEN SegmentsFromLines(segments, all_lines, line_idx + max_lines, max_lines)
             ELSE SegmentsFromLines(
                    Append(segments,
                        SRTSegment(Len(segments) + 1,
                                   segment_words[1].start,
                                   segment_words[Len(segment_words)].end,
                                   Join([k \in 1..Len(segment_lines) |->
                                            LineText(segment_lines[k])], <<"\n">>))),
                    all_lines, line_idx + max_lines, max_lines)

create_segment_from_words(segments, words_buffer, max_chars, max_lines) ==
    IF words_buffer = <<>> THEN segments
    ELSE SegmentsFromLines(segments,
                           BuildLines(words_buffer, 1, <<>>, <<>>, 0, max_chars),
                           1, max_lines)

NoStart == 0 - 1

\* the main loop; st holds segments, current_words and current_start
RECURSIVE GroupLoop(_, _, _, _, _, _)
GroupLoop(words, i, st, max_chars, max_lines, max_duration) ==
    IF i > Len(words)
    THEN (IF st.current_words # <<>>
          THEN create_segment_from_words(st.segments, st.current_words, max_chars, max_lines)
          ELSE st.segments)
    ELSE LET word_dict == words[i]
             word == Strip(word_dict.word)
             force_continue == word[1] \in LeadingMarks
             has_long_pause ==
                 /\ i > 1 /\ st.current_words # <<>>
                 /\ word_dict.start - words[i - 1].end >= LongPauseMs
             current_start ==
                 IF st.current_start = NoStart THEN word_dict.start ELSE st.current_start
             current_duration == word_dict.end - current_start
             may_break == st.current_words # <<>> /\ ~force_continue
             \* the branch taken: which sets should_break, which appends the word first
             pause_break == has_long_pause /\ may_break
             duration_branch == ~pause_break /\ current_duration > max_duration /\ may_break
             duration_break ==
                 duration_branch /\ LastChar(word) \in {".", "!", "?", ",", ":", ";"}
             punctuation_break ==
                 /\ ~pause_break /\ ~duration_branch
                 /\ LastChar(word) \in {".", "!", "?", ":"} /\ may_break
             should_break == pause_break \/ duration_break \/ punctuation_break
             appended_before ==
                 IF duration_break \/ punctuation_break
                 THEN Append(st.current_words, word_dict)
                 ELSE st.current_words
         IN  IF word = <<>>
             THEN GroupLoop(words, i + 1, st, max_chars, max_lines, max_duration)
             ELSE IF should_break /\ appended_before # <<>>
             THEN GroupLoop(words, i + 1,
                    [segments |-> create_segment_from_words(st.segments, appended_before,
                                                            max_chars, max_lines),
                     current_words |-> <<>>,
                     current_start |-> NoStart],
                    max_chars, max_lines, max_duration)
             ELSE GroupLoop(words, i + 1,
                    [segments |-> st.segments,
                     current_words |-> IF ~should_break THEN Append(appended_before, word_dict)
                                       ELSE appended_before,
                     current_start |-> current_start],
                    max_chars, max_lines, max_duration)

group_words(words, max_chars_per_line, max_lines, max_duration) ==
    IF words = <<>> THEN <<>>
    ELSE GroupLoop(MergedWords(words), 1,
                   [segments |-> <<>>, current_words |-> <<>>, current_start |-> NoStart],
                   max_chars_per_line, max_lines, max_duration)

\* with the default limits
group_words_into_subtitles(words) ==
    group_words(words, MaxCharsPerLine, MaxLines, MaxDurationMs)


(***************************************************************************)
(* Specification of the word grouper on bounded token lists.  A token is   *)
(* drawn as a kind (text, pause before it, length in time); its times      *)
(* follow from the tokens before it.                                       *)
(***************************************************************************)
MaxWords == 3

TokenKind(word, gap, dur) == [word |-> word, gap |-> gap, dur |-> dur]

TxtLongWord == <<"a","b","s","o","l","u","t","e","l","y","w","o","n","d","e","r","f","u","l","s">>

\* one word of 43 characters
TxtCompoundWord ==
    <<"D","o","n","a","u","d","a","m","p","f","s","c","h","i","f","f","f","a","h","r","t","s",
      "g","e","s","e","l","l","s","c","h","a","f","t","s","k","a","p","i","t","a","e","n">>

TokenKinds ==
    {TokenKind(<<" ", "a">>, 100, 400),
     TokenKind(<<"b", ",">>, 100, 400),
     TokenKind(<<"c", ".">>, 100, 400),
     TokenKind(<<"'", "d">>, 100, 400),
     TokenKind(<<"e">>, 2000, 400),
     TokenKind(<<"f">>, 900, 400),
     TokenKind(<<"g">>, 100, 8000),
     TokenKind(<<"-", "h">>, 2000, 400),
     TokenKind(<<" ">>, 100, 400),
     TokenKind(TxtLongWord, 100, 400),
     TokenKind(TxtCompoundWord, 100, 400)}

\* the word tokens of a sequence of kinds, the first one starting after its pause
RECURSIVE TokensFrom(_, _, _)
TokensFrom(kinds, i, end) ==
    IF i > Len(kinds) THEN <<>>
    ELSE <<WordToken(kinds[i].word, end + kinds[i].gap, end + kinds[i].gap + kinds[i].dur)>>
            \o TokensFrom(kinds, i + 1, end + kinds[i].gap + kinds[i].dur)

GrouperInputs ==
    {TokensFrom(kinds, 1, 0) : kinds \in UNION {[1..n -> TokenKinds] : n \in 0..MaxWords}}

GrouperInit ==
    /\ g_pc = "start"
    /\ g_words \in GrouperInputs
    /\ g_out = <<>>

\* if not words: return []
GrouperReturnEmpty ==
    /\ g_pc = "start"
    /\ g_words = <<>>
    /\ g_out' = group_words_into_subtitles(g_words)
    /\ g_pc' = "done"
    /\ UNCHANGED <<g_words, notGrouper>>

GrouperGroup ==
    /\ g_pc = "start"
    /\ g_words # <<>>
    /\ g_out' = group_words_into_subtitles(g_words)
    /\ g_pc' = "done"
    /\ UNCHANGED <<g_words, notGrouper>>

GrouperNext == GrouperReturnEmpty \/ GrouperGroup

InitGrouper == GrouperInit /\ CodecIdle /\ DocIdle /\ MergerIdle /\ SpeakerIdle /\ PipelineIdle /\ JobIdle /\ FilterIdle /\ QueueIdle

SpecGrouper == InitGrouper /\ [][GrouperNext]_vars

\* the non-empty token texts in input order, a token that starts with a
\* leading mark glued to the one before it
RECURSIVE GluedTexts(_, _)
GluedTexts(words, acc) ==
    IF words = <<>> THEN acc
    ELSE LET word == Strip(Head(words).word)
         IN  IF word = <<>> THEN GluedTexts(Tail(words), acc)
             ELSE IF word[1] \in LeadingMarks /\ acc # <<>>
             THEN GluedTexts(Tail(words), [acc EXCEPT ![Len(acc)] = @ \o word])
             ELSE GluedTexts(Tail(words), Append(acc, word))

\* C3: the grouper loses and duplicates no word: the words of the output cue
\* texts read in cue order are exactly the non-empty input token texts in
\* input order (leading-mark tokens glued to their predecessor), the token
\* that follows a pause of 1.5 s or more included
C3_NoWordLost ==
    g_pc = "done" => WordsOfCues(g_out) = GluedTexts(g_words, <<>>)

\* the grouper never duplicates a word and keeps the order: the output words
\* are a subsequence of the input words
RECURSIVE IsSubsequence(_, _)
IsSubsequence(a, b) ==
    IF a = <<>> THEN TRUE
    ELSE IF b = <<>> THEN FALSE
    ELSE IF Head(a) = Head(b) THEN IsSubsequence(Tail(a), Tail(b))
    ELSE IsSubsequence(a, Tail(b))

GrouperKeepsOrder ==
    g_pc = "done" => IsSubsequence(WordsOfCues(g_out), GluedTexts(g_words, <<>>))

\* the grouper makes no cue with start >= end from tokens with start < end
GrouperNoInvalidCue ==
    g_pc = "done" => \A k \in 1..Len(g_out) : g_out[k].start_time < g_out[k].end_time


(***************************************************************************)
(* Regular expressions as detect_tv_credits uses them: a pattern is a      *)
(* sequence of items, each a character class with a repetition range, and  *)
(* may be anchored at either end.                                          *)
(***************************************************************************)
Unbounded == 0 - 1

Item(neg, chars, lo, hi) == [neg |-> neg, chars |-> chars, lo |-> lo, hi |-> hi]

\* one literal character, a literal string
Chr(c) == Item(FALSE, {c}, 1, 1)
Lit(s) == [k \in 1..Len(s) |-> Chr(s[k])]

WhiteSpace == {" ", "\n", "\t", "\r"}
\* \s*, \s+, [\s-]?, [.!]?, [eé], .*
SpaceStar == Item(FALSE, WhiteSpace, 0, Unbounded)
SpacePlus == Item(FALSE, WhiteSpace, 1, Unbounded)
SpaceOrDashOpt == Item(FALSE, WhiteSpace \cup {"-"}, 0, 1)
StopOpt == Item(FALSE, {".", "!"}, 0, 1)
EOrEAcute == Item(FALSE, {"e", EAcute}, 1, 1)
DotStar == Item(TRUE, {"\n"}, 0, Unbounded)

Pattern(anchor_start, items, anchor_end) ==
    [anchor_start |-> anchor_start, items |-> items, anchor_end |-> anchor_end]

InClass(c, item) == (c \in item.chars) # item.neg

\* how many characters from pos on are in the class of the item
RECURSIVE RunLength(_, _, _)
RunLength(text, pos, item) ==
    IF pos > Len(text) \/ ~InClass(text[pos], item) THEN 0
    ELSE 1 + RunLength(text, pos + 1, item)

\* the positions just past a match of items[k..] that starts at pos
RECURSIVE MatchEnds(_, _, _, _)
MatchEnds(text, items, k, pos) ==
    IF k > Len(items) THEN {pos}
    ELSE LET run == RunLength(text, pos, items[k])
             most == IF items[k].hi = Unbounded THEN run ELSE Min(run, items[k].hi)
         IN  UNION {MatchEnds(text, items, k + 1, pos + n) : n \in items[k].lo..most}

\* $ matches at the end and before a final newline
AtEnd(text, pos) == pos = Len(text) + 1 \/ (pos = Len(text) /\ text[pos] = "\n")

\* re.search(pattern, text)
Search(pattern, text) ==
    \E start \in (IF pattern.anchor_start THEN {1} ELSE 1..(Len(text) + 1)) :
        \E end \in MatchEnds(text, pattern.items, 1, start) :
            pattern.anchor_end => AtEnd(text, end)

(***************************************************************************)
(* Hallucination filter: detect_tv_credits, clean_hallucinations           *)
(***************************************************************************)
credit_patterns ==
    << Pattern(FALSE, Lit(<<"s","o","u","s">>) \o <<SpaceOrDashOpt>>
                        \o Lit(<<"t","i","t","r","a","g","e">>), FALSE),
       Pattern(FALSE, Lit(<<"s","o","c","i">>) \o <<EOrEAcute, Chr("t"), EOrEAcute, SpacePlus>>
                        \o Lit(<<"r","a","d","i","o">>) \o <<SpaceOrDashOpt>>
                        \o Lit(<<"c","a","n","a","d","a">>), FALSE),
       Pattern(FALSE, Lit(<<"p","r","o","d","u","c","t","i","o","n">>), FALSE),
       Pattern(FALSE, <<Chr("r"), EOrEAcute>> \o Lit(<<"a","l","i","s","a","t","i","o","n">>), FALSE),
       Pattern(TRUE, Lit(<<"m","e","r","c","i">>) \o <<SpaceStar, StopOpt, SpaceStar>>, TRUE),
       Pattern(TRUE, Lit(<<"t","r",EGrave,"s">>) \o <<SpacePlus>> \o Lit(<<"b","i","e","n">>)
                        \o <<SpaceStar, StopOpt, SpaceStar>>, TRUE),
       Pattern(TRUE, Lit(<<"o","k">>) \o <<SpaceStar, StopOpt, SpaceStar>>, TRUE),
       Pattern(TRUE, Lit(<<"a","h">>) \o <<SpaceStar, StopOpt, SpaceStar>>, TRUE),
       Pattern(TRUE, <<Chr("["), DotStar, Chr("]")>>, TRUE),
       Pattern(TRUE, <<Chr(MusicNote), DotStar, Chr(MusicNote)>>, TRUE) >>

detect_tv_credits(text) ==
    \E k \in 1..Len(credit_patterns) : Search(credit_patterns[k], Strip(Lower(text)))

MaxCreditChars == 100
MaxCreditWords == 6
TimeMergeMs == 3000

\* the cue is blocked as a stock phrase
IsBlocked(text) ==
    detect_tv_credits(text) /\ Len(text) < MaxCreditChars /\ Len(SplitWs(text)) <= MaxCreditWords

\* 1A: overlap in time with similar content
IsOverlapDuplicate(text, segment, last) ==
    /\ segment.start_time < last.end_time
    /\ SimAtLeast(calculate_jaccard_trigram(text, last.text), 6, 10)

\* 1B: near in time and very similar
IsNearDuplicate(text, segment, last) ==
    /\ segment.start_time - last.end_time <= TimeMergeMs
    /\ SimAtLeast(calculate_jaccard_trigram(text, last.text), 9, 10)

\* CleanStep with a blocked cue fused into the last kept cue
CleanStepFusingBlocked(output, segment) ==
    LET text == Strip(segment.text)
        last == output[Len(output)]
        end_time == Max(last.end_time, segment.end_time)
    IN  IF text = <<>> THEN Append(output, segment)
        ELSE IF IsBlocked(text)
        THEN IF output = <<>> THEN output
             ELSE ReplaceLast(output, [last EXCEPT !.end_time = end_time])
        ELSE IF output # <<>> /\ IsOverlapDuplicate(text, segment, last)
        THEN ReplaceLast(output,
                [last EXCEPT !.text = IF Len(text) > Len(last.text) THEN text ELSE @,
                             !.end_time = end_time])
        ELSE IF output # <<>> /\ IsNearDuplicate(text, segment, last)
        THEN ReplaceLast(output, [last EXCEPT !.end_time = end_time])
        ELSE Append(output, segment)

\* one pass of the loop over the parsed cues
CleanStep(output, segment) ==
    LET text == Strip(segment.text)
        last == output[Len(output)]
        end_time == Max(last.end_time, segment.end_time)
    IN  IF text = <<>> THEN Append(output, segment)
        ELSE IF IsBlocked(text) THEN output
        ELSE IF output # <<>> /\ IsOverlapDuplicate(text, segment, last)
        THEN ReplaceLast(output,
                [last EXCEPT !.text = IF Len(text) > Len(last.text) THEN text ELSE @,
                             !.end_time = end_time])
        ELSE IF output # <<>> /\ IsNearDuplicate(text, segment, last)
        THEN ReplaceLast(output, [last EXCEPT !.end_time = end_time])
        ELSE Append(output, segment)

RECURSIVE CleanLoop(_, _)
CleanLoop(output, segments) ==
    IF segments = <<>> THEN output
    ELSE CleanLoop(CleanStep(output, Head(segments)), Tail(segments))

clean_hallucinations(srt_content) ==
    LET segments == parse_srt(srt_content)
    IN  IF segments = <<>> THEN srt_content
        ELSE FormatSegments(CleanLoop(<<>>, segments))

(***************************************************************************)
(* merge_srt_segments                                                      *)
(***************************************************************************)
SrtChunk(srt_content, time_offset) ==
    [srt_content |-> srt_content, time_offset |-> time_offset]

OffsetSegments(segments, time_offset) ==
    [k \in 1..Len(segments) |->
        SRTSegment(0, segments[k].start_time + time_offset,
                   segments[k].end_time + time_offset, segments[k].text)]

RECURSIVE AllSegments(_)
AllSegments(srt_chunks) ==
    IF srt_chunks = <<>> THEN <<>>
    ELSE OffsetSegments(parse_srt(Head(srt_chunks).srt_content), Head(srt_chunks).time_offset)
            \o AllSegments(Tail(srt_chunks))

\* list.sort(key=start_time): stable
RECURSIVE InsertByStart(_, _)
InsertByStart(sorted, segment) ==
    IF sorted = <<>> THEN <<segment>>
    ELSE IF sorted[Len(sorted)].start_time <= segment.start_time THEN Append(sorted, segment)
    ELSE Append(InsertByStart(SubSeq(sorted, 1, Len(sorted) - 1), segment), sorted[Len(sorted)])

RECURSIVE SortByStart(_, _)
SortByStart(sorted, segments) ==
    IF segments = <<>> THEN sorted
    ELSE SortByStart(InsertByStart(sorted, Head(segments)), Tail(segments))

merge_srt_segments(srt_chunks) ==
    FormatSegments(remove_overlapping_segments(SortByStart(<<>>, AllSegments(srt_chunks))))


(***************************************************************************)
(* The merger followed by the filter, as process_transcription_job chains  *)
(* them when no diarization is requested, on the documents of bounded      *)
(* sorted cue lists, one per chunk.                                        *)
(***************************************************************************)
MaxPipelineChunks == 2
MaxChunkCues == 2

\* split_audio_for_srt: chunks of 30 s that overlap by 5 s
ChunkStepMs == 25000

\* cues with chunk-relative times, numbered as the chunk's document numbers them
ChunkCuePool ==
    {SRTSegment(1, 0, 5000, TxtHelloWorld),
     SRTSegment(1, 25000, 30000, TxtHelloWorld),
     SRTSegment(7, 1000, 5500, TxtHelloWorldBang),
     SRTSegment(0, 4000, 4500, TxtMerci),
     SRTSegment(2, 4750, 8000, TxtSomethingElse)}

ChunkCueLists ==
    {cues \in UNION {[1..n -> ChunkCuePool] : n \in 0..MaxChunkCues} : SortedByStart(cues)}

ChunkStart(i) == (i - 1) * ChunkStepMs

PipelineInputs ==
    UNION {{[i \in 1..n |-> SrtChunk(Join(SrtLines(lists[i]), <<"\n">>), ChunkStart(i))] :
                lists \in [1..n -> ChunkCueLists]} : n \in 0..MaxPipelineChunks}

PipelineInit ==
    /\ p_pc = "start"
    /\ p_chunks \in PipelineInputs
    /\ p_merged = <<>>
    /\ p_final = <<>>

PipelineMerge ==
    /\ p_pc = "start"
    /\ p_merged' = merge_srt_segments(p_chunks)
    /\ p_pc' = "merged"
    /\ UNCHANGED <<p_chunks, p_final, notPipeline>>

PipelineClean ==
    /\ p_pc = "merged"
    /\ p_final' = clean_hallucinations(p_merged)
    /\ p_pc' = "cleaned"
    /\ UNCHANGED <<p_chunks, p_merged, notPipeline>>

PipelineNext == PipelineMerge \/ PipelineClean

InitPipeline ==
    PipelineInit /\ CodecIdle /\ DocIdle /\ MergerIdle /\ SpeakerIdle /\ GrouperIdle /\ JobIdle /\ FilterIdle /\ QueueIdle

SpecPipeline == InitPipeline /\ [][PipelineNext]_vars

NoAdjacentOverlap(cues) ==
    \A i \in 1..(Len(cues) - 1) : cues[i].end_time <= cues[i + 1].start_time

\* C1: after the merger and then the filter, every pair of adjacent output
\* cues satisfies cue[i].end <= cue[i+1].start
C1_NoOverlapAfterMergerAndFilter ==
    p_pc = "cleaned" => NoAdjacentOverlap(parse_srt(p_final))

\* the merged document alone has no adjacent overlap
PipelineMergedNoOverlap ==
    p_pc = "merged" => NoAdjacentOverlap(parse_srt(p_merged))

\* unless the merged document holds a cue with start > end, the filtered one
\* has no adjacent overlap
PipelineNoOverlapUnlessInvalid ==
    p_pc = "cleaned" =>
        \/ \E k \in 1..Len(parse_srt(p_merged)) :
              parse_srt(p_merged)[k].start_time > parse_srt(p_merged)[k].end_time
        \/ NoAdjacentOverlap(parse_srt(p_final))


(***************************************************************************)
(* transcribe_srt_http and the SRT mode of process_transcription_job       *)
(***************************************************************************)
\* what the recognition backend answers to one request
Response(outcome, words) == [outcome |-> outcome, words |-> words]

\* (None, None), or (srt_content, language)
NoResult == [ok |-> FALSE, srt_content |-> <<>>]
Result(srt_content) == [ok |-> TRUE, srt_content |-> srt_content]

MinContentLen == 10
MaxFirstStartMs == 10000

attempt_transcription(response) ==
    IF response.outcome # "200" THEN NoResult
    ELSE IF response.words = <<>> THEN NoResult
    ELSE LET srt_content ==
                 Join(SrtLines(group_words_into_subtitles(response.words)), <<"\n">>)
             parsed_segments == parse_srt(srt_content)
         IN  IF Len(srt_content) > MinContentLen
             THEN (IF parsed_segments # <<>> /\ parsed_segments[1].start_time < MaxFirstStartMs
                   THEN Result(srt_content)
                   ELSE IF parsed_segments = <<>> THEN Result(srt_content)
                   ELSE NoResult)
             ELSE NoResult

\* first attempt, then the retry with temperature 0.3; a result that is not
\* ok stands for the exception raised after the retry
transcribe_srt_http(chunk) ==
    IF attempt_transcription(chunk.first).ok THEN attempt_transcription(chunk.first)
    ELSE attempt_transcription(chunk.retry)

MaxJobChunks == 2

WordsHelloWorld ==
    <<WordToken(<<" ", "h", "e", "l", "l", "o">>, 0, 2500),
      WordToken(<<" ", "w", "o", "r", "l", "d">>, 2600, 5000)>>
WordsSomethingElse ==
    <<WordToken(<<" ", "s", "o", "m", "e", "t", "h", "i", "n", "g">>, 4600, 6000),
      WordToken(<<" ", "e", "l", "s", "e">>, 6100, 8000)>>
WordsHelloMerci ==
    <<WordToken(<<" ", "h", "e", "l", "l", "o">>, 0, 2500),
      WordToken(<<" ", "M", "e", "r", "c", "i", ".">>, 2600, 5000)>>
WordsLate ==
    <<WordToken(<<" ", "h", "e", "l", "l", "o">>, 12000, 13000)>>

Responses ==
    {Response("200", <<>>), Response("500", <<>>), Response("exception", <<>>),
     Response("200", WordsHelloWorld), Response("200", WordsSomethingElse),
     Response("200", WordsHelloMerci),
     Response("200", WordsLate)}

JobChunk(start_time, first, retry) ==
    [start_time |-> start_time, first |-> first, retry |-> retry]

JobChunkInputs ==
    UNION {{[i \in 1..n |-> JobChunk(ChunkStart(i), r[i][1], r[i][2])] :
                r \in [1..n -> Responses \X Responses]} : n \in 1..MaxJobChunks}

Diarization(use_diarization, speaker_segments) ==
    [use_diarization |-> use_diarization, speaker_segments |-> speaker_segments]

\* diarization not requested; requested but unavailable; requested and answered
DiarizationInputs ==
    {Diarization(FALSE, <<>>), Diarization(TRUE, <<>>),
     Diarization(TRUE, <<SpeakerSegment(0, 2000, "A"), SpeakerSegment(2000, 60000, "B")>>)}

JobInit ==
    /\ j_pc = "transcribe"
    /\ j_chunks \in JobChunkInputs
    /\ j_i = 1
    /\ j_srt_chunks = <<>>
    /\ j_diarization \in DiarizationInputs
    /\ j_merged = <<>>
    /\ j_final = <<>>
    /\ j_stages = <<>>

\* one pass of the loop over the chunks
JobTranscribeChunk ==
    /\ j_pc = "transcribe"
    /\ j_i <= Len(j_chunks)
    /\ transcribe_srt_http(j_chunks[j_i]).ok
    /\ LET srt_content == transcribe_srt_http(j_chunks[j_i]).srt_content
       IN  j_srt_chunks' =
               IF srt_content # <<>>
               THEN Append(j_srt_chunks, SrtChunk(srt_content, j_chunks[j_i].start_time))
               ELSE j_srt_chunks
    /\ j_i' = j_i + 1
    /\ j_stages' = Append(j_stages, "group")
    /\ UNCHANGED <<j_pc, j_chunks, j_diarization, j_merged, j_final, notJob>>

\* "Transcription failed after retry" reaches the handler of the job, which
\* marks the job as error
JobTranscriptionFailed ==
    /\ j_pc = "transcribe"
    /\ j_i <= Len(j_chunks)
    /\ ~transcribe_srt_http(j_chunks[j_i]).ok
    /\ j_pc' = "error"
    /\ UNCHANGED <<j_chunks, j_i, j_srt_chunks, j_diarization, j_merged, j_final, j_stages, notJob>>

JobMerge ==
    /\ j_pc = "transcribe"
    /\ j_i > Len(j_chunks)
    /\ j_merged' = merge_srt_segments(j_srt_chunks)
    /\ j_pc' = "merged"
    /\ j_stages' = Append(j_stages, "merge")
    /\ UNCHANGED <<j_chunks, j_i, j_srt_chunks, j_diarization, j_final, notJob>>

\* the speaker re-segmenter runs on the merged document before the filter
JobSpeakerSegmentation ==
    /\ j_pc = "merged"
    /\ j_diarization.use_diarization
    /\ j_diarization.speaker_segments # <<>>
    /\ LET srt_segments == parse_srt(j_merged)
           speaker_segments == j_diarization.speaker_segments
       IN  IF SpeakerRaises(srt_segments, speaker_segments)
           THEN j_pc' = "error" /\ j_merged' = j_merged
           ELSE /\ \E below \in SUBSET ExactQuotients(srt_segments, speaker_segments) :
                     j_merged' = FormatSegments(
                         apply_speaker_segmentation(srt_segments, speaker_segments, below))
                /\ j_pc' = "diarized"
    /\ j_stages' = Append(j_stages, "speaker")
    /\ UNCHANGED <<j_chunks, j_i, j_srt_chunks, j_diarization, j_final, notJob>>

\* no diarization asked for, or none available
JobSkipSpeakerSegmentation ==
    /\ j_pc = "merged"
    /\ ~j_diarization.use_diarization \/ j_diarization.speaker_segments = <<>>
    /\ j_pc' = "diarized"
    /\ UNCHANGED <<j_chunks, j_i, j_srt_chunks, j_diarization, j_merged, j_final, j_stages, notJob>>

JobClean ==
    /\ j_pc = "diarized"
    /\ j_final' = clean_hallucinations(j_merged)
    /\ j_pc' = "completed"
    /\ j_stages' = Append(j_stages, "filter")
    /\ UNCHANGED <<j_chunks, j_i, j_srt_chunks, j_diarization, j_merged, notJob>>

JobNext ==
    \/ JobTranscribeChunk
    \/ JobTranscriptionFailed
    \/ JobMerge
    \/ JobSpeakerSegmentation
    \/ JobSkipSpeakerSegmentation
    \/ JobClean

InitJob ==
    JobInit /\ CodecIdle /\ DocIdle /\ MergerIdle /\ SpeakerIdle /\ GrouperIdle /\ PipelineIdle /\ FilterIdle /\ QueueIdle

SpecJob == InitJob /\ [][JobNext]_vars

\* the backend answered both requests for the chunk with zero words
ZeroWords(chunk) ==
    /\ chunk.first = Response("200", <<>>)
    /\ chunk.retry = Response("200", <<>>)

\* C10: a chunk whose recognition output contains zero words is not an
\* error: the job is not aborted because of it
C10_ZeroWordChunkIsNoError ==
    (j_pc = "error" /\ j_i <= Len(j_chunks)) => ~ZeroWords(j_chunks[j_i])

\* the job is aborted in the transcription loop exactly when both attempts
\* for a chunk give no result
JobAbortsOnNoResult ==
    (j_pc = "error" /\ j_i <= Len(j_chunks)) =>
        /\ ~attempt_transcription(j_chunks[j_i].first).ok
        /\ ~attempt_transcription(j_chunks[j_i].retry).ok

\* srt_chunks holds one document per chunk transcribed so far
JobOneDocumentPerChunk ==
    j_pc = "transcribe" => Len(j_srt_chunks) = j_i - 1


\* position of the first occurrence of a stage, 0 if it has not run
RECURSIVE StageAt(_, _, _)
StageAt(stages, stage, k) ==
    IF k > Len(stages) THEN 0
    ELSE IF stages[k] = stage THEN k
    ELSE StageAt(stages, stage, k + 1)

RanBefore(first, second) ==
    StageAt(j_stages, second, 1) # 0 =>
        /\ StageAt(j_stages, first, 1) # 0
        /\ StageAt(j_stages, first, 1) < StageAt(j_stages, second, 1)

\* C11: the stages run in the order word grouping, Chunk Merger,
\* Hallucination Filter, then (only when speaker intervals are available) the
\* Speaker Re-segmenter: the Re-segmenter consumes the filtered cues and the
\* Filter never runs on re-segmented cues
C11_StageOrder ==
    /\ RanBefore("group", "merge")
    /\ RanBefore("merge", "filter")
    /\ RanBefore("filter", "speaker")
    /\ StageAt(j_stages, "speaker", 1) # 0 => j_diarization.speaker_segments # <<>>

\* the order the job code has: grouping, merger, re-segmenter (when speaker
\* intervals are available), filter last
JobStageOrderAsCoded ==
    /\ RanBefore("merge", "speaker")
    /\ RanBefore("merge", "filter")
    /\ RanBefore("speaker", "filter") \/ StageAt(j_stages, "speaker", 1) = 0
    /\ StageAt(j_stages, "speaker", 1) # 0 =>
          j_diarization.use_diarization /\ j_diarization.speaker_segments # <<>>
    /\ j_pc = "completed" => j_stages[Len(j_stages)] = "filter"

\* what the job would deliver were the filter run before the re-segmenter
FilterThenSpeaker(below) ==
    LET cleaned == clean_hallucinations(merge_srt_segments(j_srt_chunks))
        speaker_segments == j_diarization.speaker_segments
    IN  IF j_diarization.use_diarization /\ speaker_segments # <<>>
        THEN FormatSegments(apply_speaker_segmentation(parse_srt(cleaned), speaker_segments, below))
        ELSE cleaned

\* the delivered document is the one the order filter, re-segmenter gives
JobFinalAsFilterThenSpeaker ==
    j_pc = "completed" =>
        \E below \in SUBSET ExactQuotients(
                        parse_srt(clean_hallucinations(merge_srt_segments(j_srt_chunks))),
                        j_diarization.speaker_segments) :
            j_final = FilterThenSpeaker(below)


\* C12: the cue sequence the Chunk Merger returns is sorted by start for
\* every input sorted by start, cues whose start was moved to p.end + 0.1
\* included
C12_MergerOutputSorted ==
    m_pc = "done" => SortedByStart(m_out)

\* the returned sequence is out of order only next to a cue that was moved
\* past its own end
MergerSortedUnlessInvalid ==
    m_pc = "done" =>
        \/ SortedByStart(m_out)
        \/ \E k \in 1..Len(m_out) : m_out[k].start_time > m_out[k].end_time


(***************************************************************************)
(* parse_srt on documents with malformed blocks                            *)
(***************************************************************************)
MaxBlocks == 3

\* a block as written: its form says what is wrong with it, if anything
Block(form, index, start_time, end_time, text) ==
    [form |-> form, index |-> index, start_time |-> start_time,
     end_time |-> end_time, text |-> text]

TimeLine(block) ==
    format_srt_timestamp(block.start_time) \o <<" ">> \o Arrow \o <<" ">>
        \o format_srt_timestamp(block.end_time)

\* the lines of the block in the document
BlockLines(block) ==
    CASE block.form = "ok" ->
            <<DecimalDigits(block.index), TimeLine(block), block.text>>
      [] block.form = "index_not_integer" ->
            <<DecimalDigits(block.index) \o <<"a">>, TimeLine(block), block.text>>
      [] block.form = "index_missing" ->
            <<TimeLine(block), block.text, block.text>>
      [] block.form = "timecode_dot" ->
            <<DecimalDigits(block.index), ReplaceChar(TimeLine(block), ",", "."), block.text>>
      [] block.form = "timecode_width" ->
            <<DecimalDigits(block.index), Tail(TimeLine(block)), block.text>>
      [] block.form = "no_text" ->
            <<DecimalDigits(block.index), TimeLine(block)>>
      [] OTHER -> <<block.text>>

BlocksDocument(blocks) ==
    Join([k \in 1..Len(blocks) |-> Join(BlockLines(blocks[k]), <<"\n">>)], <<"\n", "\n">>)

BlockPool ==
    {Block("ok", 1, 0, 1000, TxtHelloWorld),
     Block("ok", 7, 1000, 2500, TxtTwoLines),
     Block("ok", 2, 2500, 4000, TxtMerci),
     Block("index_not_integer", 2, 1000, 2500, TxtHelloWorld),
     Block("index_missing", 2, 1000, 2500, TxtHelloWorld),
     Block("timecode_dot", 3, 1000, 2500, TxtHelloWorld),
     Block("timecode_width", 3, 1000, 2500, TxtSomethingElse),
     Block("no_text", 4, 1000, 2500, <<>>),
     Block("one_line", 5, 0, 0, TxtSomethingElse)}

BlockInputs == UNION {[1..n -> BlockPool] : n \in 0..MaxBlocks}

ParseInit ==
    /\ d_pc = "document"
    /\ d_blocks \in BlockInputs
    /\ d_doc = BlocksDocument(d_blocks)
    /\ d_cues = <<>>
    /\ d_parsed = <<>>

ParseDocument ==
    /\ d_pc = "document"
    /\ d_parsed' = parse_srt(d_doc)
    /\ d_pc' = "parsed"
    /\ UNCHANGED <<d_cues, d_doc, d_blocks, notDoc>>

ParseNext == ParseDocument

InitParse ==
    ParseInit /\ CodecIdle /\ MergerIdle /\ SpeakerIdle /\ GrouperIdle /\ PipelineIdle /\ JobIdle /\ FilterIdle /\ QueueIdle

SpecParse == InitParse /\ [][ParseNext]_vars

\* the cues of the well-formed blocks, in document order
RECURSIVE WellFormedCues(_)
WellFormedCues(blocks) ==
    IF blocks = <<>> THEN <<>>
    ELSE LET b == Head(blocks)
         IN  (IF b.form = "ok"
              THEN <<SRTSegment(b.index, b.start_time, b.end_time, b.text)>>
              ELSE <<>>) \o WellFormedCues(Tail(blocks))

\* C13: parse_srt skips a block with a non-integer index line, with a
\* timecode line that does not match the pattern or with fewer than three
\* lines, and returns every well-formed block before and after it, in
\* document order
C13_MalformedBlocksSkipped ==
    d_pc = "parsed" /\ d_blocks # <<>> => d_parsed = WellFormedCues(d_blocks)

\* a malformed block between two well-formed ones has been skipped
C13_Witness ==
    /\ d_pc = "parsed"
    /\ Len(d_blocks) = 3
    /\ d_blocks[1].form = "ok" /\ d_blocks[2].form = "timecode_dot" /\ d_blocks[3].form = "ok"
    /\ Len(d_parsed) = 2


\* the blocks of the document are numbered 1..N in the order they stand in it
IndexedFromOne(srt_content) ==
    LET cues == parse_srt(srt_content)
    IN  /\ srt_content # <<>> => Len(SplitOn(Strip(srt_content), <<"\n", "\n">>)) = Len(cues)
        /\ \A k \in 1..Len(cues) : cues[k].index = k

\* C14: in every document merge_srt_segments produces, and in every one
\* clean_hallucinations produces from at least one parsed cue, the cue
\* indices are exactly 1..N in output order, whatever indices the input carried
C14_IndicesContiguous ==
    /\ p_pc \in {"merged", "cleaned"} => IndexedFromOne(p_merged)
    /\ (p_pc = "cleaned" /\ parse_srt(p_merged) # <<>>) => IndexedFromOne(p_final)

\* two chunks whose documents number their cues 7, 0 and 2 have been merged
\* and cleaned into a document of two cues
C14_Witness ==
    /\ p_pc = "cleaned"
    /\ Len(p_chunks) = 2
    /\ Len(parse_srt(p_chunks[1].srt_content)) = 1
    /\ parse_srt(p_chunks[1].srt_content)[1].index = 7
    /\ Len(parse_srt(p_chunks[2].srt_content)) = 2
    /\ parse_srt(p_chunks[2].srt_content)[1].index = 0
    /\ parse_srt(p_chunks[2].srt_content)[2].index = 2
    /\ Len(parse_srt(p_final)) = 2


\* the speaker intervals that touch the cue, in list order
IntervalsOver(segment, speaker_segments) ==
    SelectSeq(speaker_segments,
              LAMBDA seg : ~(seg.end < segment.start_time \/ seg.start > segment.end_time))

\* how many of them name another speaker than the interval before
ChangeCount(segment, speaker_segments) ==
    LET over == IntervalsOver(segment, speaker_segments)
    IN  Cardinality({k \in 1..Len(over) : k = 1 \/ over[k].speaker # over[k - 1].speaker})

\* C15: a cue for which zero or one speaker change is found keeps its start,
\* end and text, and the whole sequence is returned unchanged when there are
\* no speaker intervals
C15_UnsplitCueUnmodified ==
    s_pc = "done" =>
        /\ s_speakers = <<>> => s_out = s_segments
        /\ \A j \in 1..Len(s_segments) :
              ChangeCount(s_segments[j], s_speakers) <= 1 =>
                  /\ s_counts[j] = 1
                  /\ SubCues(j)[1].start_time = s_segments[j].start_time
                  /\ SubCues(j)[1].end_time = s_segments[j].end_time
                  /\ SubCues(j)[1].text = s_segments[j].text

\* a cue covered by two consecutive intervals of the same speaker, next to a
\* cue that no interval touches, both returned as they were
C15_Witness ==
    /\ s_pc = "done"
    /\ s_segments = <<SRTSegment(1, 0, 4000, TxtHelloThereFriend),
                      SRTSegment(2, 4000, 6000, TxtHelloWorld)>>
    /\ s_speakers = <<SpeakerSegment(0, 2000, "A"), SpeakerSegment(2000, 3000, "A")>>
    /\ Len(s_out) = 2
    /\ s_out[1].text = TxtHelloThereFriend


\* the cues of a document without those blocked as stock phrases
WithoutStockCues(segments) ==
    SelectSeq(segments, LAMBDA segment : ~IsBlocked(Strip(segment.text)))

\* C16: the filter drops every cue whose text matches a stock pattern with at
\* most 6 words and fewer than 100 characters, and the document it returns is
\* the one it builds from the input cues without the dropped ones
C16_StockCuesDropped ==
    (p_pc = "cleaned" /\ parse_srt(p_merged) # <<>>) =>
        /\ \A k \in 1..Len(parse_srt(p_final)) : ~IsBlocked(Strip(parse_srt(p_final)[k].text))
        /\ p_final = FormatSegments(CleanLoop(<<>>, WithoutStockCues(parse_srt(p_merged))))

\* a stock cue between two other cues is dropped and its neighbours are kept
C16_Witness ==
    /\ p_pc = "cleaned"
    /\ Len(parse_srt(p_merged)) = 3
    /\ parse_srt(p_merged)[2].text = TxtMerci
    /\ parse_srt(p_merged)[1].end_time < parse_srt(p_merged)[2].end_time
    /\ Len(parse_srt(p_final)) = 2
    /\ parse_srt(p_final)[1].end_time = parse_srt(p_merged)[1].end_time
    /\ parse_srt(p_final)[2].text = parse_srt(p_merged)[3].text


\* the text lines of a cue
TextLines(segment) == SplitOn(segment.text, <<"\n">>)

\* the cue holds the tokens a..b of the glued token list: its words are
\* theirs, it starts with the first and ends with the last
HoldsTokens(segment, tokens, a, b) ==
    /\ SplitWs(segment.text) = [k \in 1..(b - a + 1) |-> Strip(tokens[a + k - 1].word)]
    /\ segment.start_time = tokens[a].start
    /\ segment.end_time = tokens[b].end

\* C17: every cue of the grouper has at most max_lines (2) text lines, starts
\* at the start of the first token placed in it and ends at the end of the
\* last token placed in it
C17_CueLinesAndTimes ==
    g_pc = "done" =>
        \A k \in 1..Len(g_out) :
            /\ Len(TextLines(g_out[k])) <= MaxLines
            /\ \E a \in 1..Len(MergedWords(g_words)) : \E b \in a..Len(MergedWords(g_words)) :
                  HoldsTokens(g_out[k], MergedWords(g_words), a, b)

\* three tokens 0.9 s apart make three lines: a cue of two lines from the
\* first token's start to the second token's end, and a cue with the third
C17_Witness ==
    /\ g_pc = "done"
    /\ Len(g_words) = 3
    /\ \A k \in 1..3 : g_words[k].word = <<"f">>
    /\ Len(g_out) = 2
    /\ Len(TextLines(g_out[1])) = 2
    /\ g_out[1].start_time = g_words[1].start
    /\ g_out[1].end_time = g_words[2].end
    /\ g_out[2].start_time = g_words[3].start


\* C18: every text line of every cue of the grouper has at most
\* max_chars_per_line (42) characters
C18_LinesWithinLimit ==
    g_pc = "done" =>
        \A k \in 1..Len(g_out) : \A n \in 1..Len(TextLines(g_out[k])) :
            Len(TextLines(g_out[k])[n]) <= MaxCharsPerLine

\* a line is over the limit only when it is one token that is itself over it
GrouperLineOverLimitIsOneToken ==
    g_pc = "done" =>
        \A k \in 1..Len(g_out) : \A n \in 1..Len(TextLines(g_out[k])) :
            \/ Len(TextLines(g_out[k])[n]) <= MaxCharsPerLine
            \/ Len(SplitWs(TextLines(g_out[k])[n])) = 1


\* the candidate of the loop and the last accepted cue
Candidate == m_valid[m_i]
LastAccepted == m_cleaned[Len(m_cleaned)]

\* a step of the loop was taken
LoopStep == m_pc = "loop" /\ m_i <= Len(m_valid) /\ m_i' = m_i + 1

\* the cues accepted before the last one stay as they are
EarlierCuesKept == SubSeq(m_cleaned', 1, Len(m_cleaned) - 1) = SubSeq(m_cleaned, 1, Len(m_cleaned) - 1)

\* the candidate overlaps the last accepted cue and the trigram similarity is
\* above 0.5 or the boundary-word check passes
MergeCase ==
    /\ Candidate.start_time < LastAccepted.end_time
    /\ \/ SimAbove(calculate_jaccard_trigram(LastAccepted.text, Candidate.text), 1, 2)
       \/ has_boundary_overlap(LastAccepted, Candidate)

\* C19: in the merge case the candidate is not added, the last accepted cue
\* takes the longer of the two texts (its own on a tie) and the later of the
\* two ends, and keeps its start
C19_MergeStep ==
    [][(LoopStep /\ MergeCase) =>
            /\ Len(m_cleaned') = Len(m_cleaned)
            /\ EarlierCuesKept
            /\ m_cleaned'[Len(m_cleaned)].text =
                  IF Len(Candidate.text) > Len(LastAccepted.text)
                  THEN Candidate.text ELSE LastAccepted.text
            /\ m_cleaned'[Len(m_cleaned)].end_time =
                  Max(LastAccepted.end_time, Candidate.end_time)
            /\ m_cleaned'[Len(m_cleaned)].start_time = LastAccepted.start_time]_vars

\* a candidate as long as the last accepted cue, in other letters and ending
\* later, has just been merged: the accepted cue keeps its text and ends later
C19_Witness ==
    /\ m_pc = "loop"
    /\ m_last.kind = "merge"
    /\ m_last.previous.text = TxtHelloWorld
    /\ m_last.current.text = TxtHelloWorldUpper
    /\ m_last.current.end_time > m_last.previous.end_time
    /\ Len(m_cleaned) = 1
    /\ m_cleaned[1].text = TxtHelloWorld
    /\ m_cleaned[1].end_time = m_last.current.end_time


\* C20: a candidate that is not merged is added with its text and end as they
\* were; its start is as it was when it does not overlap the last accepted
\* cue, and that cue's end + 0.1 s when it does; the cues accepted so far,
\* the last one included, stay as they are
C20_AcceptStep ==
    [][(LoopStep /\ ~MergeCase) =>
            /\ Len(m_cleaned') = Len(m_cleaned) + 1
            /\ SubSeq(m_cleaned', 1, Len(m_cleaned)) = m_cleaned
            /\ m_cleaned'[Len(m_cleaned')].text = Candidate.text
            /\ m_cleaned'[Len(m_cleaned')].end_time = Candidate.end_time
            /\ m_cleaned'[Len(m_cleaned')].start_time =
                  IF Candidate.start_time >= LastAccepted.end_time
                  THEN Candidate.start_time
                  ELSE LastAccepted.end_time + GapMs]_vars

\* a candidate with other content that overlapped the last accepted cue has
\* just been added, 0.1 s after that cue's end, and a third one that does not
\* overlap it is still to come
C20_Witness ==
    /\ m_pc = "loop"
    /\ m_last.kind = "adjust"
    /\ m_last.previous = SRTSegment(0, 0, 5000, TxtHelloWorld)
    /\ m_last.current = SRTSegment(0, 4600, 8000, TxtSomethingElse)
    /\ m_cleaned = <<SRTSegment(0, 0, 5000, TxtHelloWorld),
                     SRTSegment(0, 5100, 8000, TxtSomethingElse)>>
    /\ m_i = 3 /\ Len(m_valid) = 3
    /\ m_valid[3].start_time >= 8000


\* the candidate overlaps the last accepted cue and their trigram similarity
\* is not above 0.5: the boundary-word check alone decides
BoundaryCheckDecides ==
    /\ Candidate.start_time < LastAccepted.end_time
    /\ ~SimAbove(calculate_jaccard_trigram(LastAccepted.text, Candidate.text), 1, 2)

\* the candidate was merged into the last accepted cue
CandidateMerged == Len(m_cleaned') = Len(m_cleaned)

\* the first n words of current that occur among the last n words of previous,
\* n the smaller of 5 and the two word counts, each occurrence counted
CommonWindowMatches(p_words, c_words) ==
    LET n == Min(5, Min(Len(p_words), Len(c_words)))
    IN  Cardinality({i \in 1..n :
            \E k \in (Len(p_words) - n + 1)..Len(p_words) : p_words[k] = c_words[i]})

\* C21 as the code has it: the boundary-word check passes exactly when at
\* least 2 of the first N normalized words of c occur among the last N
\* normalized words of p, N = min(5, len(p_words), len(c_words)) for both
\* windows
C21_CommonWindowCheck ==
    [][(LoopStep /\ BoundaryCheckDecides) =>
            (CandidateMerged <=>
                CommonWindowMatches(NormalizedWords(LastAccepted.text),
                                    NormalizedWords(Candidate.text)) >= 2)]_vars

\* C21 as stated: the boundary-word check passes exactly when at least 2 of
\* the last min(5, len(p_words)) normalized words of p appear among the first
\* min(5, len(c_words)) normalized words of c, each window length taken from
\* its own text
C21_OwnWindowCheck ==
    [][(LoopStep /\ BoundaryCheckDecides) =>
            (CandidateMerged <=> BoundaryOverlapOwnWindows(LastAccepted, Candidate))]_vars

\* "and then" overlapped "and then we saw the" and was kept as a cue of its
\* own: the common window of 2 words holds "saw the" and "and then"
C21_Witness ==
    /\ m_pc = "loop"
    /\ m_last.kind = "adjust"
    /\ m_last.previous.text = TxtAndThenWeSawThe
    /\ m_last.current.text = TxtAndThen
    /\ Len(m_cleaned) = 2
    /\ m_cleaned[2].text = TxtAndThen


(***************************************************************************)
(* clean_hallucinations step by step, on the documents of bounded cue      *)
(* lists sorted by start                                                   *)
(***************************************************************************)
MaxFilterCues == 3

TxtHelloWorldOk == TxtHelloWorld \o <<" ", "o", "k">>
TxtBlank == <<" ">>

FilterCuePool ==
    {SRTSegment(0, 0, 5000, TxtHelloWorld),
     SRTSegment(0, 0, 5000, TxtHelloWorldOk),
     SRTSegment(0, 4000, 6000, TxtHelloWorld),
     SRTSegment(0, 4000, 6000, TxtHelloWorldBang),
     SRTSegment(0, 4000, 6000, TxtHelloWorldOk),
     SRTSegment(0, 4000, 4500, TxtMerci),
     SRTSegment(0, 4000, 6000, TxtBlank),
     SRTSegment(0, 6000, 7000, TxtHelloWorldBang),
     SRTSegment(0, 6000, 7000, TxtSomethingElse),
     SRTSegment(0, 8000, 9000, TxtHelloWorld),
     SRTSegment(0, 9500, 10000, TxtHelloWorld),
     SRTSegment(0, 9500, 10000, TxtHelloWorldBang)}

FilterInputs ==
    {FormatSegments(cues) :
        cues \in {c \in UNION {[1..n -> FilterCuePool] : n \in 0..MaxFilterCues} :
                    SortedByStart(c)}}

FilterInit ==
    /\ f_pc = "start"
    /\ f_content \in FilterInputs
    /\ f_segments = <<>>
    /\ f_i = 0
    /\ f_output = <<>>
    /\ f_last = NoStep
    /\ f_result = <<>>

\* if not segments: return srt_content
FilterReturnContent ==
    /\ f_pc = "start"
    /\ parse_srt(f_content) = <<>>
    /\ f_result' = clean_hallucinations(f_content)
    /\ f_pc' = "done"
    /\ UNCHANGED <<f_content, f_segments, f_i, f_output, f_last, notFilter>>

\* segments = parse_srt(srt_content); output = []
FilterParse ==
    /\ f_pc = "start"
    /\ parse_srt(f_content) # <<>>
    /\ f_segments' = parse_srt(f_content)
    /\ f_i' = 1
    /\ f_pc' = "loop"
    /\ UNCHANGED <<f_content, f_output, f_last, f_result, notFilter>>

FilterIterate(kind) ==
    /\ f_pc = "loop" /\ f_i <= Len(f_segments)
    /\ f_output' = CleanStep(f_output, f_segments[f_i])
    /\ f_last' = [kind |-> kind, segment |-> f_segments[f_i]]
    /\ f_i' = f_i + 1
    /\ UNCHANGED <<f_pc, f_content, f_segments, f_result, notFilter>>

\* the cue of the loop, its stripped text, and the last kept cue
FilterSegment == f_segments[f_i]
FilterText == Strip(f_segments[f_i].text)
FilterLast == f_output[Len(f_output)]

\* a stock phrase is blocked
FilterBlock ==
    /\ f_pc = "loop" /\ f_i <= Len(f_segments)
    /\ FilterText # <<>> /\ IsBlocked(FilterText)
    /\ FilterIterate("block")

\* 1A: overlap in time with similar content
FilterOverlap ==
    /\ f_pc = "loop" /\ f_i <= Len(f_segments)
    /\ FilterText # <<>> /\ ~IsBlocked(FilterText)
    /\ f_output # <<>> /\ IsOverlapDuplicate(FilterText, FilterSegment, FilterLast)
    /\ FilterIterate("overlap")

\* 1B: near in time and very similar
FilterFuse ==
    /\ f_pc = "loop" /\ f_i <= Len(f_segments)
    /\ FilterText # <<>> /\ ~IsBlocked(FilterText)
    /\ f_output # <<>> /\ ~IsOverlapDuplicate(FilterText, FilterSegment, FilterLast)
    /\ IsNearDuplicate(FilterText, FilterSegment, FilterLast)
    /\ FilterIterate("fuse")

\* "Keep segment"
FilterKeep ==
    /\ f_pc = "loop" /\ f_i <= Len(f_segments)
    /\ FilterText # <<>> /\ ~IsBlocked(FilterText)
    /\ f_output # <<>> =>
          /\ ~IsOverlapDuplicate(FilterText, FilterSegment, FilterLast)
          /\ ~IsNearDuplicate(FilterText, FilterSegment, FilterLast)
    /\ FilterIterate("keep")

\* "Re-index and format"
FilterFormat ==
    /\ f_pc = "loop" /\ f_i > Len(f_segments)
    /\ f_result' = FormatSegments(f_output)
    /\ f_pc' = "done"
    /\ UNCHANGED <<f_content, f_segments, f_i, f_output, f_last, notFilter>>

FilterNext ==
    \/ FilterReturnContent \/ FilterParse \/ FilterBlock
    \/ FilterOverlap \/ FilterFuse \/ FilterKeep \/ FilterFormat

InitFilter ==
    FilterInit /\ CodecIdle /\ DocIdle /\ MergerIdle /\ SpeakerIdle /\ GrouperIdle /\ PipelineIdle /\ JobIdle /\ QueueIdle

SpecFilter == InitFilter /\ [][FilterNext]_vars

\* "Keep empty segments" is never taken: parse_srt strips every block and
\* wants three lines, so the text of a parsed cue ends with a visible character
FilterTextNeverEmpty ==
    (f_pc = "loop" /\ f_i <= Len(f_segments)) => FilterText # <<>>

\* the loop computes what the function returns
FilterStepsAgree == f_pc = "done" => f_result = clean_hallucinations(f_content)


\* a step of the filter's loop, and one that fuses the cue into the last kept
\* cue: the cue is not a stock phrase and the output does not grow
FilterLoopStep == f_pc = "loop" /\ f_i <= Len(f_segments) /\ f_i' = f_i + 1
FilterFusing == FilterLoopStep /\ ~IsBlocked(FilterText) /\ Len(f_output') = Len(f_output)

\* C22: whenever the filter discards a cue by fusing it into the previously
\* kept cue, that cue keeps its text and start and only its end changes, to
\* the max of the two ends; the text of a kept cue is never replaced
C22_FusionKeepsText ==
    [][FilterLoopStep =>
          /\ \A k \in 1..Len(f_output) : f_output'[k].text = f_output[k].text
          /\ FilterFusing =>
                /\ f_output'[Len(f_output)].start_time = FilterLast.start_time
                /\ f_output'[Len(f_output)].end_time =
                      Max(FilterLast.end_time, FilterSegment.end_time)]_vars

\* fusing leaves the start, sets the end to the max of the two ends, and
\* leaves the text or replaces it by the longer text of the cue that overlaps
FilterFusionKeepsStart ==
    [][FilterFusing =>
          /\ f_output'[Len(f_output)].start_time = FilterLast.start_time
          /\ f_output'[Len(f_output)].end_time =
                Max(FilterLast.end_time, FilterSegment.end_time)
          /\ \/ f_output'[Len(f_output)].text = FilterLast.text
             \/ /\ f_output'[Len(f_output)].text = FilterText
                /\ Len(FilterText) > Len(FilterLast.text)
                /\ FilterSegment.start_time < FilterLast.end_time]_vars

\* C23: a cue that is not a stock phrase is fused into the previously kept
\* cue only if it starts within 3.0 s of that cue's end and their trigram
\* similarity is at least 0.9; below 0.9 it stays a cue of its own
C23_FusionOnlyAboveThreshold ==
    [][FilterFusing =>
          /\ FilterSegment.start_time - FilterLast.end_time <= TimeMergeMs
          /\ SimAtLeast(calculate_jaccard_trigram(FilterText, FilterLast.text), 9, 10)]_vars

\* a cue is fused only if it starts within 3.0 s of the last kept cue's end
\* and is similar to it: at least 0.9, or at least 0.6 when the two overlap
FilterFusionThresholds ==
    [][FilterFusing =>
          /\ FilterSegment.start_time - FilterLast.end_time <= TimeMergeMs
          /\ \/ SimAtLeast(calculate_jaccard_trigram(FilterText, FilterLast.text), 9, 10)
             \/ /\ FilterSegment.start_time < FilterLast.end_time
                /\ SimAtLeast(calculate_jaccard_trigram(FilterText, FilterLast.text), 6, 10)]_vars


\* token i starts with an apostrophe, hyphen or en-dash and a token that is
\* not empty comes before it
IsRepairToken(words, i) ==
    /\ Strip(words[i].word) # <<>>
    /\ Strip(words[i].word)[1] \in LeadingMarks
    /\ \E k \in 1..(i - 1) : Strip(words[k].word) # <<>>

\* the text token i is the end of, once glued to its predecessor
GluedUpTo(words, i) ==
    LET texts == GluedTexts(SubSeq(words, 1, i), <<>>) IN texts[Len(texts)]

StartsWith(word, prefix) ==
    Len(prefix) <= Len(word) /\ SubSeq(word, 1, Len(prefix)) = prefix

\* C24: a token that starts with an apostrophe, hyphen or en-dash and has a
\* predecessor is glued to it without a space, and the two are in one cue, on
\* one line of it, the cue ending no earlier than the token does
C24_RepairedTokensTogether ==
    g_pc = "done" =>
        \A i \in 1..Len(g_words) :
            IsRepairToken(g_words, i) =>
                \E k \in 1..Len(g_out) : \E n \in 1..Len(TextLines(g_out[k])) :
                    /\ \E w \in 1..Len(SplitWs(TextLines(g_out[k])[n])) :
                          StartsWith(SplitWs(TextLines(g_out[k])[n])[w], GluedUpTo(g_words, i))
                    /\ g_out[k].end_time >= g_words[i].end

\* the same whenever no word is lost after a pause of 1.5 s or more: only a
\* glued token that is lost whole is missing from the cues
GrouperRepairedTogetherUnlessLost ==
    g_pc = "done" =>
        \A i \in 1..Len(g_words) :
            (IsRepairToken(g_words, i) /\ WordsOfCues(g_out) = GluedTexts(g_words, <<>>)) =>
                \E k \in 1..Len(g_out) : \E n \in 1..Len(TextLines(g_out[k])) :
                    /\ \E w \in 1..Len(SplitWs(TextLines(g_out[k])[n])) :
                          StartsWith(SplitWs(TextLines(g_out[k])[n])[w], GluedUpTo(g_words, i))
                    /\ g_out[k].end_time >= g_words[i].end


StrongPunctuation == {".", "!", "?", ":"}

\* C25: every token that ends with strong terminal punctuation is the last
\* token of its cue, the first token accumulated since the previous cue
\* boundary included
C25_StrongPunctuationEndsCue ==
    g_pc = "done" =>
        \A k \in 1..Len(g_out) : \A w \in 1..(Len(SplitWs(g_out[k].text)) - 1) :
            LastChar(SplitWs(g_out[k].text)[w]) \notin StrongPunctuation

\* a token that ends with strong punctuation and is not the last of its cue
\* is the first of it
GrouperPunctuationInsideOnlyFirst ==
    g_pc = "done" =>
        \A k \in 1..Len(g_out) : \A w \in 2..(Len(SplitWs(g_out[k].text)) - 1) :
            LastChar(SplitWs(g_out[k].text)[w]) \notin StrongPunctuation


\* the sub-cues of parent j lie within its bounds, in time order, and do not
\* overlap one another
SubCuesWithin(j) ==
    /\ \A k \in 1..s_counts[j] :
          /\ s_segments[j].start_time <= SubCues(j)[k].start_time
          /\ SubCues(j)[k].end_time <= s_segments[j].end_time
    /\ \A k \in 1..(s_counts[j] - 1) :
          /\ SubCues(j)[k].start_time <= SubCues(j)[k + 1].start_time
          /\ SubCues(j)[k].end_time <= SubCues(j)[k + 1].start_time

\* C26: for speaker intervals sorted by start, the sub-cues made from one
\* parent cue lie within the parent's bounds, appear in time order and do not
\* overlap one another, so a sequence without overlap stays without overlap
C26_SubCuesWithinParent ==
    s_pc = "done" =>
        /\ \A j \in 1..Len(s_segments) : SubCuesWithin(j)
        /\ NoAdjacentOverlap(s_segments) => NoAdjacentOverlap(s_out)

\* a cue that starts after the first speaker interval does is split in two,
\* and one covered by three speakers is split in three
C26_Witness ==
    /\ s_pc = "done"
    /\ Len(s_segments) = 2
    /\ s_segments[1] = SRTSegment(1, 1000, 3000, TxtTwoLines)
    /\ s_speakers = <<SpeakerSegment(0, 2000, "A"), SpeakerSegment(2000, 4000, "B"),
                      SpeakerSegment(4000, 6000, "C")>>
    /\ s_counts[1] = 2
    /\ SubCues(1)[1].start_time = 1000
    /\ SubCues(1)[2].start_time = 2000
    /\ s_counts[2] = 2


\* the input cues with start < end, in input order
WithoutInvalidCues(segments) ==
    SelectSeq(segments, LAMBDA seg : seg.start_time < seg.end_time)

\* C27: every input cue with start >= end is removed before any overlap
\* comparison: it is never the candidate or the last accepted cue of a
\* comparison, the output is what the other cues alone give, and an input of
\* such cues only, or an empty one, gives an empty output
C27_InvalidCuesRemovedFirst ==
    /\ (m_pc = "loop" /\ m_i <= Len(m_valid)) =>
          /\ Candidate.start_time < Candidate.end_time
          /\ \E k \in 1..Len(m_segments) : m_segments[k] = Candidate
    /\ m_pc = "loop" =>
          /\ WithoutInvalidCues(m_segments) # <<>>
          /\ m_cleaned = MergerLoop(<<WithoutInvalidCues(m_segments)[1]>>,
                                    SubSeq(WithoutInvalidCues(m_segments), 2, m_i - 1))
    /\ m_pc = "done" =>
          /\ m_out = remove_overlapping_segments(WithoutInvalidCues(m_segments))
          /\ WithoutInvalidCues(m_segments) = <<>> => m_out = <<>>

\* a cue with start = end that overlaps both of its neighbours and has the
\* words of the first has been left out: the two others are compared with
\* each other
C27_Witness ==
    /\ m_pc = "done"
    /\ m_segments = <<SRTSegment(0, 0, 5000, TxtHelloWorld),
                      SRTSegment(0, 3000, 3000, TxtHelloWorldBang),
                      SRTSegment(0, 4600, 8000, TxtSomethingElse)>>
    /\ m_out = <<SRTSegment(0, 0, 5000, TxtHelloWorld),
                 SRTSegment(0, 5100, 8000, TxtSomethingElse)>>

(***************************************************************************)
(* The job queue (queue_manager.py), the worker loop (worker.py) and a web *)
(* request that cancels a job (app.py).  The web process and the worker    *)
(* are two processes on one PostgreSQL database; each call opens its own   *)
(* session, reads with a SELECT and writes at commit with an UPDATE of the *)
(* row by primary key, so a step of the other process can fall between the *)
(* read and the write.  q_status[j] is the committed status of row j,      *)
(* "none" while the row is not committed.                                  *)
(***************************************************************************)
MaxJobs == 3

Jobs == 1..MaxJobs

\* the queued rows with the least queued_at: order_by(Job.queued_at.asc())
QueuedFirst(status, queued_at) ==
    {j \in Jobs : /\ status[j] = "queued"
                  /\ \A k \in Jobs : status[k] = "queued" => queued_at[j] <= queued_at[k]}

\* app.py update_job_status: read the row, set its status, commit
update_job_status(status, job_id, value) ==
    IF status[job_id] = "none" THEN status ELSE [status EXCEPT ![job_id] = value]

QueueInit ==
    /\ q_status = [j \in Jobs |-> "none"]
    /\ q_queued_at = [j \in Jobs |-> 0]
    /\ q_clock = 0
    /\ w_pc = "check"
    /\ w_job = NoJob
    /\ shutdown_requested = FALSE
    /\ web_pc = "idle"
    /\ web_job = NoJob
    /\ q_cancel_true = {}
    /\ q_handed = {}

\* enqueue_job: the Job object takes queued_at = datetime.utcnow() ...
EnqueueJobStamp(j) ==
    /\ q_status[j] = "none"
    /\ q_queued_at[j] = 0
    /\ q_clock' = q_clock + 1
    /\ q_queued_at' = [q_queued_at EXCEPT ![j] = q_clock + 1]
    /\ UNCHANGED <<q_status, w_pc, w_job, shutdown_requested, web_pc, web_job, q_cancel_true, q_handed>>
    /\ UNCHANGED notQueue

\* ... and the row is committed with status 'queued'
EnqueueJobCommit(j) ==
    /\ q_status[j] = "none"
    /\ q_queued_at[j] # 0
    /\ q_status' = [q_status EXCEPT ![j] = "queued"]
    /\ UNCHANGED <<q_queued_at, q_clock, w_pc, w_job, shutdown_requested, web_pc, web_job, q_cancel_true, q_handed>>
    /\ UNCHANGED notQueue

\* run_worker: while not shutdown_requested
RunWorkerCheck ==
    /\ w_pc = "check"
    /\ w_pc' = IF shutdown_requested THEN "stopped" ELSE "select"
    /\ UNCHANGED <<q_status, q_queued_at, q_clock, w_job, shutdown_requested, web_pc, web_job, q_cancel_true, q_handed>>
    /\ UNCHANGED notQueue

\* get_next_job: the SELECT of the oldest queued row; with none the call
\* returns None and the worker sleeps, then polls again
GetNextJobSelect ==
    /\ w_pc = "select"
    /\ \/ /\ QueuedFirst(q_status, q_queued_at) = {}
          /\ w_job' = NoJob
          /\ w_pc' = "check"
       \/ /\ w_job' \in QueuedFirst(q_status, q_queued_at)
          /\ w_pc' = "commit"
    /\ UNCHANGED <<q_status, q_queued_at, q_clock, shutdown_requested, web_pc, web_job, q_cancel_true, q_handed>>
    /\ UNCHANGED notQueue

\* get_next_job: job.status = 'processing', commit and return job; run_worker
\* hands the job to process_job
GetNextJobCommit ==
    /\ w_pc = "commit"
    /\ q_status' = [q_status EXCEPT ![w_job] = "processing"]
    /\ q_handed' = q_handed \cup {w_job}
    /\ w_pc' = "process"
    /\ UNCHANGED <<q_queued_at, q_clock, w_job, shutdown_requested, web_pc, web_job, q_cancel_true>>
    /\ UNCHANGED notQueue

\* process_job, prepare_audio_job: the audio is ready and
\* process_transcription_job begins with update_job_status(job_id, 'processing')
ProcessJobStart ==
    /\ w_pc = "process"
    /\ q_status' = update_job_status(q_status, w_job, "processing")
    /\ w_pc' = "run"
    /\ UNCHANGED <<q_queued_at, q_clock, w_job, shutdown_requested, web_pc, web_job, q_cancel_true, q_handed>>
    /\ UNCHANGED notQueue

\* process_transcription_job: the output is written and the job is marked
\* with update_job_status(job_id, 'completed')
ProcessJobComplete ==
    /\ w_pc = "run"
    /\ q_status' = update_job_status(q_status, w_job, "completed")
    /\ w_pc' = "stored"
    /\ UNCHANGED <<q_queued_at, q_clock, w_job, shutdown_requested, web_pc, web_job, q_cancel_true, q_handed>>
    /\ UNCHANGED notQueue

\* process_job: no input_path, or an exception at any step, before the
\* transcription begins, during it, or in create_document_record or
\* set_job_result after the job was marked completed: the handlers of
\* process_transcription_job, prepare_audio_job and process_job run
\* update_job_status(job_id, 'error')
ProcessJobError ==
    /\ w_pc \in {"process", "run", "stored"}
    /\ q_status' = update_job_status(q_status, w_job, "error")
    /\ w_pc' = "finish"
    /\ UNCHANGED <<q_queued_at, q_clock, w_job, shutdown_requested, web_pc, web_job, q_cancel_true, q_handed>>
    /\ UNCHANGED notQueue

\* process_transcription_job returns after the result is stored
ProcessJobStored ==
    /\ w_pc = "stored"
    /\ w_pc' = "finish"
    /\ UNCHANGED <<q_status, q_queued_at, q_clock, w_job, shutdown_requested, web_pc, web_job, q_cancel_true, q_handed>>
    /\ UNCHANGED notQueue

\* run_worker: process_job has returned; update_queue_positions, next round
ProcessJobReturn ==
    /\ w_pc = "finish"
    /\ w_pc' = "check"
    /\ w_job' = NoJob
    /\ UNCHANGED <<q_status, q_queued_at, q_clock, shutdown_requested, web_pc, web_job, q_cancel_true, q_handed>>
    /\ UNCHANGED notQueue

\* signal_handler: SIGINT or SIGTERM arrives, wherever the worker is
SignalHandler ==
    /\ w_pc # "stopped"
    /\ ~shutdown_requested
    /\ shutdown_requested' = TRUE
    /\ UNCHANGED <<q_status, q_queued_at, q_clock, w_pc, w_job, web_pc, web_job, q_cancel_true, q_handed>>
    /\ UNCHANGED notQueue

\* cancel_queued_job: the route finds the job queued (it answers 404 or 400
\* otherwise) and calls QueueManager.cancel_job
CancelQueuedJob(j) ==
    /\ web_pc = "idle"
    /\ q_status[j] = "queued"
    /\ web_pc' = "select"
    /\ web_job' = j
    /\ UNCHANGED <<q_status, q_queued_at, q_clock, w_pc, w_job, shutdown_requested, q_cancel_true, q_handed>>
    /\ UNCHANGED notQueue

\* cancel_job: the SELECT of the row with this job_id and status 'queued';
\* with no such row the call returns False
CancelJobSelect ==
    /\ web_pc = "select"
    /\ IF q_status[web_job] = "queued"
          THEN web_pc' = "commit" /\ web_job' = web_job
          ELSE web_pc' = "idle" /\ web_job' = NoJob
    /\ UNCHANGED <<q_status, q_queued_at, q_clock, w_pc, w_job, shutdown_requested, q_cancel_true, q_handed>>
    /\ UNCHANGED notQueue

\* cancel_job: job.status = 'cancelled', commit, return True
CancelJobCommit ==
    /\ web_pc = "commit"
    /\ q_status' = [q_status EXCEPT ![web_job] = "cancelled"]
    /\ q_cancel_true' = q_cancel_true \cup {web_job}
    /\ web_pc' = "idle"
    /\ web_job' = NoJob
    /\ UNCHANGED <<q_queued_at, q_clock, w_pc, w_job, shutdown_requested, q_handed>>
    /\ UNCHANGED notQueue

WorkerNext ==
    \/ RunWorkerCheck
    \/ GetNextJobSelect
    \/ GetNextJobCommit
    \/ ProcessJobStart
    \/ ProcessJobComplete
    \/ ProcessJobError
    \/ ProcessJobStored
    \/ ProcessJobReturn

QueueNext ==
    \/ \E j \in Jobs : EnqueueJobStamp(j)
    \/ \E j \in Jobs : EnqueueJobCommit(j)
    \/ RunWorkerCheck
    \/ GetNextJobSelect
    \/ GetNextJobCommit
    \/ ProcessJobStart
    \/ ProcessJobComplete
    \/ ProcessJobError
    \/ ProcessJobStored
    \/ ProcessJobReturn
    \/ SignalHandler
    \/ \E j \in Jobs : CancelQueuedJob(j)
    \/ CancelJobSelect
    \/ CancelJobCommit

InitQueue ==
    QueueInit /\ CodecIdle /\ DocIdle /\ MergerIdle /\ SpeakerIdle /\ GrouperIdle /\ PipelineIdle /\ JobIdle /\ FilterIdle

SpecQueue == InitQueue /\ [][QueueNext]_vars

\* The worker is a process of its own and every step of it ends: a step of
\* the worker that can be taken is taken.
SpecQueueFair == SpecQueue /\ WF_vars(WorkerNext)

QueueTypeOK ==
    /\ q_status \in [Jobs -> {"none", "queued", "processing", "cancelled", "completed", "error"}]
    /\ q_queued_at \in [Jobs -> 0..MaxJobs]
    /\ q_clock \in 0..MaxJobs
    /\ w_pc \in {"check", "select", "commit", "process", "run", "stored", "finish", "stopped"}
    /\ w_job \in Jobs \cup {NoJob}
    /\ web_pc \in {"idle", "select", "commit"}
    /\ web_job \in Jobs \cup {NoJob}
    /\ q_cancel_true \subseteq Jobs
    /\ q_handed \subseteq Jobs

\* the step on which get_next_job sets the job to 'processing' and returns it
GetNextJobReturns == w_pc = "commit" /\ w_pc' = "process"

\* C28: the job get_next_job returns and sets to 'processing' is a row whose
\* status is 'queued' and whose queued_at is the least among the queued rows:
\* no job is started while an earlier-queued job is still queued, and no
\* cancelled, processing, completed or error job is returned.
C28_NextJobIsEarliestQueued ==
    [][GetNextJobReturns =>
          /\ q_status[w_job] = "queued"
          /\ \A k \in Jobs : q_status[k] = "queued" => q_queued_at[w_job] <= q_queued_at[k]]_vars

\* At its SELECT get_next_job takes the earliest queued row, and gives up
\* only when no row is queued.
QueueSelectIsFifo ==
    [][(w_pc = "select" /\ w_pc' # "select") =>
          IF w_pc' = "commit"
             THEN /\ q_status[w_job'] = "queued"
                  /\ \A k \in Jobs : q_status[k] = "queued" => q_queued_at[w_job'] <= q_queued_at[k]
             ELSE /\ w_job' = NoJob
                  /\ \A k \in Jobs : q_status[k] # "queued"]_vars

\* The row get_next_job returns was queued at the SELECT; by the commit only
\* a cancel or a later row committed with an earlier queued_at can have come
\* between: the status is 'queued' or 'cancelled', never another.
QueueReturnedQueuedOrCancelled ==
    [][GetNextJobReturns => q_status[w_job] \in {"queued", "cancelled"}]_vars

\* C29: a job for which cancel_job returned True is never handed to
\* process_job and its status stays 'cancelled', under every interleaving of
\* cancel_job and get_next_job.
C29_CancelledNeverProcessed ==
    \A j \in q_cancel_true : j \notin q_handed /\ q_status[j] = "cancelled"

\* A cancel that is committed before the worker's SELECT is respected: the
\* worker does not select a cancelled row.
QueueCancelledNotSelected ==
    [][(w_pc = "select" /\ w_pc' = "commit") => q_status[w_job'] # "cancelled"]_vars

\* the step on which process_job returns to run_worker
ProcessJobReturns == w_pc # "finish" /\ w_pc' = "finish"

\* C30 (shutdown): once the shutdown signal has been handled the worker takes
\* no further job.
QueueNoJobTakenAfterSignal ==
    [][shutdown_requested => ~GetNextJobReturns]_vars

\* C30 (state at return): when process_job returns, the job's status is
\* 'completed' or 'error'.
QueueReturnsCompletedOrError ==
    [][ProcessJobReturns => q_status'[w_job] \in {"completed", "error"}]_vars

\* C30: every job the worker takes has status 'completed' or 'error' when
\* process_job returns, whether processing succeeded or raised, and after a
\* shutdown signal the worker takes no further job.
C30_JobsLeaveProcessing ==
    [][/\ ProcessJobReturns => q_status'[w_job] \in {"completed", "error"}
       /\ shutdown_requested => ~GetNextJobReturns]_vars

\* Without a cancel_job that returned True for the job, its status at the
\* return of process_job is 'completed' or 'error' on every path.
QueueFinishedUnlessCancelled ==
    (w_pc = "finish" /\ w_job \notin q_cancel_true) => q_status[w_job] \in {"completed", "error"}

\* get_next_job is about to return a row that a cancel_job has set to
\* 'cancelled' since the SELECT
QueueTakenJobCancelled == w_pc = "commit" /\ q_status[w_job] = "cancelled"

\* get_next_job is about to return a row while a row with an earlier
\* queued_at, committed since the SELECT, is queued
QueueEarlierRowArrived ==
    w_pc = "commit" /\ \E k \in Jobs : q_status[k] = "queued" /\ q_queued_at[k] < q_queued_at[w_job]

\* With the flag set at the loop test the worker stops, and stays stopped:
\* after the signal at most the get_next_job call in progress returns a job.
QueueStopsAtLoopTest ==
    [][/\ (w_pc = "check" /\ shutdown_requested) => w_pc' \in {"check", "stopped"}
       /\ w_pc = "stopped" => w_pc' = "stopped"]_vars

\* Every job handed to process_job reaches 'completed' or 'error', and the
\* worker then polls again or stops (under SpecQueueFair).
QueueTakenJobsFinish ==
    \A j \in Jobs :
        (w_pc = "process" /\ w_job = j) ~> (w_pc = "finish" /\ w_job = j)

QueueTakenJobsLeaveProcessing ==
    \A j \in Jobs :
        (w_pc = "process" /\ w_job = j) ~> (q_status[j] \in {"completed", "error"})

QueueWorkerGoesOn ==
    (w_pc = "finish") ~> (w_pc \in {"select", "stopped"})
====
